---------------------------- MODULE Spec2Model ----------------------------
(***************************************************************************)
(* Model of the ontology-scoped extraction service                         *)
(* (python-services/nlp-service/main.py), of the payloads its client       *)
(* library sends (python-services/nlp-service/client.py), of the request   *)
(* loop of the two client libraries (nlp-service/client.py and             *)
(* knowledge-graph-client/client.py) and of the entity deduplication of    *)
(* the spaCy extractor (scripts/spacy_entity_extractor.py).                *)
(*                                                                         *)
(* Python values are modelled as follows.                                  *)
(*   - str whose characters the code inspects (type names, entity values,  *)
(*     object ids): a sequence of one-character strings;                   *)
(*   - str used only as a key or compared as a whole (ontology names,      *)
(*     dictionary keys): a TLA+ string; a diagnostic text built by an      *)
(*     f-string: the sequence of its literal and interpolated pieces;      *)
(*   - dict that is only indexed: a function whose DOMAIN is the set of    *)
(*     keys present (None and {} are both the empty function where the     *)
(*     code tests them only for truthiness);                               *)
(*   - dict that is iterated (ONTOLOGIES, EXTRACTED_OBJECTS): a sequence   *)
(*     of [key, val] entries in insertion order;                           *)
(*   - float confidences: integer hundredths (0.9 is 90).                  *)
(***************************************************************************)
EXTENDS Integers, Sequences, FiniteSets, TLC

VARIABLES
    ONTOLOGIES,                \* main.py:108  name -> configuration
    VALID_ONTOLOGY_TYPES,      \* main.py:98   legacy global state
    VALID_RELATIONSHIP_TYPES,  \* main.py:99
    PROPERTY_ENTITY_TYPES,     \* main.py:100
    ENTITY_DESCRIPTIONS,       \* main.py:104
    RELATIONSHIP_DESCRIPTIONS, \* main.py:105
    EXTRACTED_OBJECTS,         \* main.py:1107 object id -> provenance record
    client,                    \* main.py:19-26 TRUE iff the OpenAI client is configured
    uuid_counter,              \* number of uuid.uuid4() values drawn so far
    response,                  \* what the last handler returned to its caller
    regLog,                    \* history: the registration requests served, in order
    lastCall,                  \* history: the last extraction request and the LLM answers it got,
                               \* or the last query of the object registry
    batch,                     \* position of the running /batch-extract-graph handler
    http,                      \* client.py: position of the running _make_request
    spacy                      \* spacy_entity_extractor.py: the last _deduplicate_entities call

vars == <<ONTOLOGIES, VALID_ONTOLOGY_TYPES, VALID_RELATIONSHIP_TYPES,
          PROPERTY_ENTITY_TYPES, ENTITY_DESCRIPTIONS, RELATIONSHIP_DESCRIPTIONS,
          EXTRACTED_OBJECTS, client, uuid_counter, response, regLog, lastCall,
          batch, http, spacy>>

\* The state of the client libraries and of the spaCy extractor
libVars == <<http, spacy>>

ontoVars == <<ONTOLOGIES, VALID_ONTOLOGY_TYPES, VALID_RELATIONSHIP_TYPES,
              PROPERTY_ENTITY_TYPES, ENTITY_DESCRIPTIONS,
              RELATIONSHIP_DESCRIPTIONS>>

-----------------------------------------------------------------------------
(* Bounds *)

MaxRegs == 2        \* registrations served in one behaviour
MaxUuid == 2        \* /extract-graph is served while fewer uuid4 values were drawn
MaxBatchUuid == 1   \* /batch-extract-graph is served while fewer uuid4 values were drawn
MaxBatch == 2       \* documents in one batch request

-----------------------------------------------------------------------------
(* Vocabulary of the bounded inputs *)

Person == <<"P", "e", "r", "s", "o", "n">>
Email == <<"E", "m", "a", "i", "l">>
Org == <<"O", "r", "g">>
WORKS_AT == <<"W", "O", "R", "K", "S", "_", "A", "T">>
OWNS == <<"O", "W", "N", "S">>
hasValue == <<"h", "a", "s", "V", "a", "l", "u", "e">>

DEFAULT_ONTOLOGY_NAME == "default"
NoName == ""        \* Optional[str] that is None or "": both are falsy
OntologyNames == {NoName, "default", "A", "B"}

-----------------------------------------------------------------------------
(* Python dictionaries *)

\* dict.get(k, default)
Get(d, k, default) == IF k \in DOMAIN d THEN d[k] ELSE default

\* d[k] = v on a dict that is only indexed
Put(d, k, v) == [x \in DOMAIN d \cup {k} |-> IF x = k THEN v ELSE d[x]]

\* k in d, d[k], d[k] = v and list(d.keys()) on an insertion-ordered dict
Has(d, k) == \E i \in 1..Len(d) : d[i].key = k
Lookup(d, k) == d[CHOOSE i \in 1..Len(d) : d[i].key = k].val
Store(d, k, v) ==
    IF Has(d, k)
    THEN [i \in 1..Len(d) |-> IF d[i].key = k THEN [key |-> k, val |-> v] ELSE d[i]]
    ELSE Append(d, [key |-> k, val |-> v])
Keys(d) == [i \in 1..Len(d) |-> d[i].key]

-----------------------------------------------------------------------------
(* Ontology Registry: POST /ontologies, get_ontology_by_name, GET /ontologies *)

descHuman == <<"a", " ", "h", "u", "m", "a", "n">>
descJob == <<"j", "o", "b">>

\* OntologyUpdateRequest with the fields a caller left out at their defaults
OntologyUpdateRequest(name, et, rt, pt, ed, rd, compact) ==
    [ontology |-> name, entity_types |-> et, relationship_types |-> rt,
     property_types |-> pt, entity_descriptions |-> ed,
     relationship_descriptions |-> rd, compact_ontology |-> compact]

\* The request bodies of the bounded registry runs: full and compact forms,
\* with and without descriptions, with pattern entries that are not triples,
\* with a compact table lacking a key, and a compact request that also
\* carries the full-form fields.
OntologyBodies ==
    { OntologyUpdateRequest(NoName, <<Person, Email>>, <<WORKS_AT>>, <<Email>>,
          [t \in {Person} |-> descHuman], [t \in {WORKS_AT} |-> descJob], <<>>),
      OntologyUpdateRequest(NoName, <<Person>>, <<>>, <<>>, <<>>, <<>>, <<>>),
      OntologyUpdateRequest(NoName, <<Org>>, <<hasValue>>, <<Email>>, <<>>, <<>>, <<>>),
      OntologyUpdateRequest(NoName, <<>>, <<>>, <<>>, <<>>, <<>>, <<>>),
      OntologyUpdateRequest(NoName, <<>>, <<>>, <<>>, <<>>, <<>>,
          [e |-> <<Org, Person>>,
           r |-> << <<Person, WORKS_AT, Org>>, <<Org, OWNS>>, <<Org, OWNS, Org>>,
                    <<Org, hasValue, Org, Org>> >>]),
      OntologyUpdateRequest(NoName, <<>>, <<>>, <<>>, <<>>, <<>>, [e |-> <<Person>>]),
      OntologyUpdateRequest(NoName, <<>>, <<>>, <<>>, <<>>, <<>>,
          [r |-> << <<Person, WORKS_AT, Org>> >>]),
      OntologyUpdateRequest(NoName, <<Person>>, <<WORKS_AT>>, <<Email>>,
          [t \in {Person} |-> descHuman], <<>>, [e |-> <<Org>>, r |-> <<>>]) }

OntologyRequests ==
    { [b EXCEPT !.ontology = n] : b \in OntologyBodies, n \in OntologyNames }

\* The registrations of the extraction runs
ExtractionOntologyRequests ==
    { OntologyUpdateRequest(NoName, <<Person, Email>>, <<WORKS_AT>>, <<Email>>,
          [t \in {Person} |-> descHuman], [t \in {WORKS_AT} |-> descJob], <<>>),
      OntologyUpdateRequest("A", <<>>, <<>>, <<>>, <<>>, <<>>,
          [e |-> <<Org, Person>>, r |-> << <<Person, WORKS_AT, Org>> >>]),
      OntologyUpdateRequest("A", <<>>, <<WORKS_AT>>, <<>>, <<>>, <<>>, <<>>) }

\* Mutant: the name is used as sent, no default for a missing one
NameOrDefault_AsSent(ontology) == ontology

\* request.ontology or DEFAULT_ONTOLOGY_NAME
NameOrDefault(ontology) ==
    IF ontology # NoName THEN ontology ELSE DEFAULT_ONTOLOGY_NAME

\* Mutant: the length of a pattern entry is not checked
RECURSIVE CompactRelationshipTypes_NoLengthCheck(_)
CompactRelationshipTypes_NoLengthCheck(relationships) ==
    IF relationships = <<>> THEN <<>>
    ELSE LET rel == Head(relationships)
             rest == CompactRelationshipTypes_NoLengthCheck(Tail(relationships))
         IN IF Len(rel) >= 2 THEN <<rel[2]>> \o rest ELSE rest

\* for rel in relationships: if len(rel) == 3: relationship_types.append(rel[1])
RECURSIVE CompactRelationshipTypes(_)
CompactRelationshipTypes(relationships) ==
    IF relationships = <<>> THEN <<>>
    ELSE LET rel == Head(relationships)
             rest == CompactRelationshipTypes(Tail(relationships))
         IN IF Len(rel) = 3 THEN <<rel[2]>> \o rest ELSE rest

\* The dictionary update_ontologies stores for a request
StoredConfig(request) ==
    LET compact == request.compact_ontology
    IN IF DOMAIN compact # {}
       THEN [entity_types |-> Get(compact, "e", <<>>),
             relationship_types |-> CompactRelationshipTypes(Get(compact, "r", <<>>)),
             property_types |-> <<>>,
             entity_descriptions |-> <<>>,
             relationship_descriptions |-> <<>>,
             compact_ontology |-> compact]
       ELSE [entity_types |-> request.entity_types,
             relationship_types |-> request.relationship_types,
             property_types |-> request.property_types,
             entity_descriptions |-> request.entity_descriptions,
             relationship_descriptions |-> request.relationship_descriptions]

\* Mutant: the new configuration is merged into the one already stored
RegisterConfig_Merge(ontologies, ontology, config) ==
    IF Has(ontologies, ontology)
    THEN Store(ontologies, ontology,
               [k \in DOMAIN Lookup(ontologies, ontology) \cup DOMAIN config |->
                   IF k \in DOMAIN config THEN config[k]
                   ELSE Lookup(ontologies, ontology)[k]])
    ELSE Store(ontologies, ontology, config)

\* Mutant: the registry is started afresh with the new configuration
RegisterConfig_Afresh(ontologies, ontology, config) ==
    <<[key |-> ontology, val |-> config]>>

\* if ontology not in ONTOLOGIES: ONTOLOGIES[ontology] = {};  ONTOLOGIES[ontology] = {...}
RegisterConfig(ontologies, ontology, config) == Store(ontologies, ontology, config)

\* No handler is running, and no extraction has been served
NoBatch == [pc |-> "idle"]
NoCall == [handler |-> "none"]
\* Mutant: a handler starts while the batch handler is in its loop
Idle_Always == TRUE
Idle == batch.pc = "idle"

\* POST /ontologies
update_ontologies(request) ==
    LET ontology == NameOrDefault(request.ontology)
        config == StoredConfig(request)
    IN /\ Idle
       /\ Len(regLog) < MaxRegs
       /\ ONTOLOGIES' = RegisterConfig(ONTOLOGIES, ontology, config)
       /\ VALID_ONTOLOGY_TYPES' = config.entity_types
       /\ VALID_RELATIONSHIP_TYPES' = config.relationship_types
       /\ PROPERTY_ENTITY_TYPES' = config.property_types
       /\ ENTITY_DESCRIPTIONS' = config.entity_descriptions
       /\ RELATIONSHIP_DESCRIPTIONS' = config.relationship_descriptions
       /\ response' = [handler |-> "update_ontologies", status |-> 204]
       /\ regLog' = Append(regLog, request)
       /\ UNCHANGED <<libVars, EXTRACTED_OBJECTS, client, uuid_counter, lastCall, batch>>

\* Mutant: built-in types stand in when nothing is configured
LegacyConfig_BuiltIn ==
    [entity_types |-> <<Person, Org>>,
     relationship_types |-> <<WORKS_AT>>,
     property_types |-> <<>>,
     entity_descriptions |-> <<>>,
     relationship_descriptions |-> <<>>]

\* The legacy fallback of get_ontology_by_name
LegacyConfig ==
    [entity_types |-> VALID_ONTOLOGY_TYPES,
     relationship_types |-> VALID_RELATIONSHIP_TYPES,
     property_types |-> PROPERTY_ENTITY_TYPES,
     entity_descriptions |-> ENTITY_DESCRIPTIONS,
     relationship_descriptions |-> RELATIONSHIP_DESCRIPTIONS]

\* Mutant: the lookup reads the legacy global state, whatever the name
get_ontology_by_name_Legacy(ontology) == LegacyConfig

\* Mutant: a missing name goes straight to the legacy global state
get_ontology_by_name_NoDefault(ontology) ==
    LET name == IF ontology = NoName THEN DEFAULT_ONTOLOGY_NAME ELSE ontology
    IN IF Has(ONTOLOGIES, name) THEN Lookup(ONTOLOGIES, name) ELSE LegacyConfig

get_ontology_by_name(ontology) ==
    LET name == IF ontology = NoName THEN DEFAULT_ONTOLOGY_NAME ELSE ontology
    IN IF Has(ONTOLOGIES, name) THEN Lookup(ONTOLOGIES, name)
       ELSE IF Has(ONTOLOGIES, DEFAULT_ONTOLOGY_NAME)
            THEN Lookup(ONTOLOGIES, DEFAULT_ONTOLOGY_NAME)
            ELSE LegacyConfig

get_available_ontologies == Keys(ONTOLOGIES)

\* GET /ontologies
get_ontologies ==
    /\ Idle
    /\ response' =
         [handler |-> "get_ontologies", status |-> 200,
          available_ontologies |-> get_available_ontologies,
          default_ontology |-> DEFAULT_ONTOLOGY_NAME,
          ontology_details |->
             [i \in 1..Len(ONTOLOGIES) |->
                LET config == ONTOLOGIES[i].val
                IN [name |-> ONTOLOGIES[i].key,
                    entity_types |-> Get(config, "entity_types", <<>>),
                    relationship_types |-> Get(config, "relationship_types", <<>>),
                    property_types |-> Get(config, "property_types", <<>>),
                    entity_count |-> Len(Get(config, "entity_types", <<>>)),
                    relationship_count |-> Len(Get(config, "relationship_types", <<>>))]]]
    /\ UNCHANGED <<libVars, ontoVars, EXTRACTED_OBJECTS, client, uuid_counter, regLog,
                   lastCall, batch>>

-----------------------------------------------------------------------------
(* Python strings *)

UpperCase == <<"A", "B", "C", "D", "E", "F", "G", "H", "I", "J", "K", "L", "M",
               "N", "O", "P", "Q", "R", "S", "T", "U", "V", "W", "X", "Y", "Z">>
LowerCase == <<"a", "b", "c", "d", "e", "f", "g", "h", "i", "j", "k", "l", "m",
               "n", "o", "p", "q", "r", "s", "t", "u", "v", "w", "x", "y", "z">>

\* str.lower()
Lower(s) ==
    [i \in 1..Len(s) |->
        IF \E k \in 1..Len(UpperCase) : UpperCase[k] = s[i]
        THEN LowerCase[CHOOSE k \in 1..Len(UpperCase) : UpperCase[k] = s[i]]
        ELSE s[i]]

\* str.replace(old, new) for a one-character old and new
Replace(s, old, new) == [i \in 1..Len(s) |-> IF s[i] = old THEN new ELSE s[i]]

\* sub in s
Contains(sub, s) ==
    \E i \in 0..(Len(s) - Len(sub)) : SubSeq(s, i + 1, i + Len(sub)) = sub

\* Mutant: the suffix is the same at every draw
UuidSuffix_Fixed(n) == <<"0">>

\* str(uuid.uuid4())[:8] of the n-th draw: one token, distinct for every draw
UuidSuffix(n) == <<ToString(n)>>

\* f"{entity_type}_{value}".replace(" ", "_").replace("-", "_").lower() + "_" + suffix
generate_entity_id(entity_type, value, n) ==
    Lower(Replace(Replace(entity_type \o <<"_">> \o value, " ", "_"), "-", "_"))
        \o <<"_">> \o UuidSuffix(n)

\* "rel_" + f"{source}_{rel_type}_{target}" normalised the same way + "_" + suffix
generate_relationship_id(source, target, rel_type, n) ==
    <<"r", "e", "l", "_">>
        \o Lower(Replace(Replace(source \o <<"_">> \o rel_type \o <<"_">> \o target,
                                 " ", "_"), "-", "_"))
        \o <<"_">> \o UuidSuffix(n)

-----------------------------------------------------------------------------
(* Identity & Provenance Tracker *)

DefaultConfidence == 90     \* 0.9
ZeroConfidence == 0         \* 0.0

EntityOfType == <<"E", "n", "t", "i", "t", "y", " ", "o", "f", " ",
                  "t", "y", "p", "e", " ">>
RelationshipOfType == <<"R", "e", "l", "a", "t", "i", "o", "n", "s", "h", "i", "p",
                        " ", "o", "f", " ", "t", "y", "p", "e", " ">>
Unknown == <<"U", "n", "k", "n", "o", "w", "n">>

\* Mutant: the description is the template, whatever the configuration says
EntityGraphData_Template(entity, ontology_config) ==
    [node_type |-> Get(entity, "type", <<>>),
     node_value |-> Get(entity, "value", <<>>),
     description |-> EntityOfType \o Get(entity, "type", <<>>),
     confidence |-> Get(entity, "confidence", ZeroConfidence),
     properties |-> Get(entity, "properties", <<>>),
     extraction_method |-> "nlp_service",
     ontology_source |-> Get(ontology_config, "ontology_name", "default")]

\* The graph_data dictionary create_entity_graph_data builds (the clock left out)
EntityGraphData(entity, ontology_config) ==
    LET entity_type == Get(entity, "type", <<>>)
        entity_descriptions == Get(ontology_config, "entity_descriptions", <<>>)
    IN [node_type |-> entity_type,
        node_value |-> Get(entity, "value", <<>>),
        description |-> Get(entity_descriptions, entity_type, EntityOfType \o entity_type),
        confidence |-> Get(entity, "confidence", ZeroConfidence),
        properties |-> Get(entity, "properties", <<>>),
        extraction_method |-> "nlp_service",
        ontology_source |-> Get(ontology_config, "ontology_name", "default")]

\* EXTRACTED_OBJECTS after create_entity_graph_data(entity, ontology_config)
StoreEntity(objects, entity, ontology_config) ==
    LET entity_id == Get(entity, "id", <<>>)
    IN IF entity_id # <<>>
       THEN Store(objects, entity_id,
                  [type |-> "entity",
                   entity_type |-> Get(entity, "type", <<>>),
                   value |-> Get(entity, "value", <<>>),
                   graph_data |-> EntityGraphData(entity, ontology_config)])
       ELSE objects

\* The graph_data dictionary create_relationship_graph_data builds
RelationshipGraphData(relationship, ontology_config) ==
    LET rel_type == Get(relationship, "type", <<>>)
        relationship_descriptions ==
            Get(ontology_config, "relationship_descriptions", <<>>)
    IN [edge_type |-> rel_type,
        source |-> Get(relationship, "source", <<>>),
        target |-> Get(relationship, "target", <<>>),
        description |-> Get(relationship_descriptions, rel_type,
                            RelationshipOfType \o rel_type),
        confidence |-> Get(relationship, "confidence", ZeroConfidence),
        explanation |-> Get(relationship, "explanation", <<>>),
        extraction_method |-> "nlp_service",
        ontology_source |-> Get(ontology_config, "ontology_name", "default")]

\* EXTRACTED_OBJECTS after create_relationship_graph_data(relationship, config)
StoreRelationship(objects, relationship, ontology_config) ==
    LET rel_id == Get(relationship, "id", <<>>)
    IN IF rel_id # <<>>
       THEN Store(objects, rel_id,
                  [type |-> "relationship",
                   relationship_type |-> Get(relationship, "type", <<>>),
                   source |-> Get(relationship, "source", <<>>),
                   target |-> Get(relationship, "target", <<>>),
                   graph_data |-> RelationshipGraphData(relationship, ontology_config)])
       ELSE objects

-----------------------------------------------------------------------------
(* The external LLM capability and its JSON answers *)

Alice == <<"A", "l", "i", "c", "e">>
AcmeCo == <<"A", "c", "m", "e", "-", "C", "o">>
AliceMail == <<"a", "@", "x">>
LlmId == <<"e", "1">>

\* A JSON object with entities and relationships lists
JsonGraph(entities, relationships) ==
    [t |-> "object",
     fields |-> [entities |-> entities, relationships |-> relationships]]

\* message.content that is the complete or the truncated text of a JSON value
JsonText(json, complete) == [kind |-> "text", complete |-> complete, json |-> json]

Answer(content) == [kind |-> "content", content |-> content]

GoodGraph ==
    JsonGraph(<< [value |-> Alice, type |-> Person,
                  properties |-> [email |-> AliceMail]],
                 [value |-> AcmeCo, types |-> [list |-> TRUE, items |-> <<Org>>]] >>,
              << [source |-> Alice, target |-> AcmeCo, type |-> WORKS_AT] >>)

\* What one call of chat.completions.create can produce: a transport failure,
\* no content, truncated text, JSON that is not an object, an object without
\* the two lists, a well-formed graph, a graph whose entity carries its own id
\* and confidence, an entity with an empty types list and no type, a list
\* element that is not an object, an entity without a value, an object whose
\* "entities" is null, two entities carrying the same id.
LLMOutcomes ==
    { [kind |-> "transport_error"],
      Answer([kind |-> "none"]),
      Answer(JsonText(GoodGraph, FALSE)),
      Answer(JsonText([t |-> "array"], TRUE)),
      Answer(JsonText([t |-> "object", fields |-> <<>>], TRUE)),
      Answer(JsonText(GoodGraph, TRUE)),
      Answer(JsonText(JsonGraph(
          << [id |-> LlmId, value |-> Alice, type |-> Person, confidence |-> 50],
             [value |-> AcmeCo, type |-> Org] >>,
          << [source |-> Alice, target |-> AcmeCo, type |-> WORKS_AT,
              confidence |-> 70] >>), TRUE)),
      Answer(JsonText(JsonGraph(
          << [value |-> Alice, types |-> [list |-> TRUE, items |-> <<>>]] >>,
          <<>>), TRUE)),
      Answer(JsonText(JsonGraph(
          << [value |-> Alice, type |-> Person], [nondict |-> Alice] >>,
          <<>>), TRUE)),
      Answer(JsonText(JsonGraph(
          << [type |-> Person] >>,
          << [source |-> Alice, type |-> WORKS_AT] >>), TRUE)),
      Answer(JsonText([t |-> "object", fields |-> [relationships |-> <<>>],
                       nulls |-> {"entities"}], TRUE)),
      Answer(JsonText(JsonGraph(
          << [id |-> LlmId, value |-> Alice, type |-> Person],
             [id |-> LlmId, value |-> AcmeCo, type |-> Org] >>,
          <<>>), TRUE)) }

NotCalled == [kind |-> "not_called"]

\* json.loads: the value of a complete text, JSONDecodeError on a truncated one
json_loads(response_str) ==
    IF response_str.complete
    THEN [raised |-> FALSE, value |-> response_str.json]
    ELSE [raised |-> TRUE, exc |-> "JSONDecodeError"]

\* isinstance(x, dict) for an element of a JSON list
IsDict(x) == "nondict" \notin DOMAIN x

\* The keys of a JSON object whose value is null
Nulls(json) == IF "nulls" \in DOMAIN json THEN json.nulls ELSE {}

-----------------------------------------------------------------------------
(* Prompt Builder *)

Awarder == <<"A", "w", "a", "r", "d", "e", "r">>
Tenderer == <<"T", "e", "n", "d", "e", "r", "e", "r">>
MonetaryValue == <<"M", "o", "n", "e", "t", "a", "r", "y", "V", "a", "l", "u", "e">>
AwardDecision == <<"A", "w", "a", "r", "d", "D", "e", "c", "i", "s", "i", "o", "n">>
Winner == <<"W", "i", "n", "n", "e", "r">>
Award == <<"A", "w", "a", "r", "d">>
Value == <<"V", "a", "l", "u", "e">>
Amount == <<"A", "m", "o", "u", "n", "t">>

\* Mutant: every entity type is offered, the property-like ones included
CoreEntityTypes_All(entity_types, property_types) == entity_types

\* core_entity_types = [t for t in entity_types if t not in property_types]
CoreEntityTypes(entity_types, property_types) ==
    SelectSeq(entity_types,
              LAMBDA t : ~ \E i \in 1..Len(property_types) : property_types[i] = t)

\* The generic patterns derived from the relationship types
RECURSIVE FallbackPatterns(_)
FallbackPatterns(relationship_types) ==
    IF relationship_types = <<>> THEN <<>>
    ELSE LET rel_type == Head(relationship_types)
             mine == IF Contains(Value, rel_type) \/ Contains(Amount, rel_type)
                     THEN << <<Awarder, rel_type, MonetaryValue>>,
                             <<Tenderer, rel_type, MonetaryValue>> >>
                     ELSE IF Contains(Winner, rel_type)
                     THEN << <<AwardDecision, rel_type, Winner>> >>
                     ELSE IF Contains(Award, rel_type)
                     THEN << <<Awarder, rel_type, Tenderer>>,
                             <<Awarder, rel_type, Winner>> >>
                     ELSE <<>>
         IN mine \o FallbackPatterns(Tail(relationship_types))

\* The variable parts of the prompt: the compact ontology and the text
BuildPrompt(ontology_config, text) ==
    LET entity_types == Get(ontology_config, "entity_types", <<>>)
        property_types == Get(ontology_config, "property_types", <<>>)
        relationship_types == Get(ontology_config, "relationship_types", <<>>)
        compact_ontology_config == Get(ontology_config, "compact_ontology", <<>>)
    IN [e |-> CoreEntityTypes(entity_types, property_types),
        r |-> IF DOMAIN compact_ontology_config # {}
                 /\ "r" \in DOMAIN compact_ontology_config
              THEN compact_ontology_config["r"]
              ELSE FallbackPatterns(relationship_types),
        text |-> text]

-----------------------------------------------------------------------------
(* Extraction Orchestrator: extract_graph_with_llm *)

\* Mutant: every failure is reported as the client's
HTTPException_BadRequest(status, detail) ==
    [raised |-> TRUE, exc |-> "HTTPException", status |-> 400, detail |-> detail]

HTTPException(status, detail) ==
    [raised |-> TRUE, exc |-> "HTTPException", status |-> status, detail |-> detail]

\* Mutant: the default confidence is written over the one the entity has
RepairEntity_Overwrite(entity) ==
    IF ~IsDict(entity) THEN entity
    ELSE LET typed ==
                 IF "types" \in DOMAIN entity /\ entity["types"].list
                    /\ entity["types"].items # <<>>
                 THEN Put(entity, "type", entity["types"].items[1])
                 ELSE IF "type" \notin DOMAIN entity /\ "types" \notin DOMAIN entity
                 THEN Put(entity, "type", Unknown)
                 ELSE entity
         IN Put(typed, "confidence", DefaultConfidence)

\* The repair pass over one element of the entities list
RepairEntity(entity) ==
    IF ~IsDict(entity) THEN entity
    ELSE LET typed ==
                 IF "types" \in DOMAIN entity /\ entity["types"].list
                    /\ entity["types"].items # <<>>
                 THEN Put(entity, "type", entity["types"].items[1])
                 ELSE IF "type" \notin DOMAIN entity /\ "types" \notin DOMAIN entity
                 THEN Put(entity, "type", Unknown)
                 ELSE entity
         IN IF "confidence" \notin DOMAIN typed
            THEN Put(typed, "confidence", DefaultConfidence)
            ELSE typed

\* The repair pass over one element of the relationships list
RepairRelationship(rel) ==
    IF IsDict(rel) /\ "confidence" \notin DOMAIN rel
    THEN Put(rel, "confidence", DefaultConfidence)
    ELSE rel

EmptyGraph == [entities |-> <<>>, relationships |-> <<>>]

\* The try block: the call, the parse and the repair pass
ParseAndRepair(outcome) ==
    IF outcome.kind = "transport_error"
    THEN HTTPException(500, <<"LLM graph extraction error: ", "APIConnectionError">>)
    ELSE LET response_str == outcome.content
         IN IF response_str.kind = "none"
            THEN [raised |-> FALSE, graph |-> EmptyGraph]
            ELSE LET parsed == json_loads(response_str)
                 IN IF parsed.raised
                    THEN HTTPException(500, <<"LLM graph extraction error: ", parsed.exc>>)
                    ELSE IF /\ parsed.value.t = "object"
                            /\ Nulls(parsed.value) \cap {"entities", "relationships"} # {}
                    THEN HTTPException(500, <<"LLM graph extraction error: ", "TypeError">>)
                    ELSE IF parsed.value.t = "object"
                    THEN LET entities == Get(parsed.value.fields, "entities", <<>>)
                             relationships ==
                                 Get(parsed.value.fields, "relationships", <<>>)
                         IN [raised |-> FALSE,
                             graph |->
                               [entities |->
                                  [i \in 1..Len(entities) |-> RepairEntity(entities[i])],
                                relationships |->
                                  [i \in 1..Len(relationships) |->
                                      RepairRelationship(relationships[i])]]]
                    ELSE [raised |-> FALSE, graph |-> EmptyGraph]

\* Whether extract_graph_with_llm gets as far as calling the LLM
LLMReached(ontology) ==
    /\ client
    /\ Get(get_ontology_by_name(ontology), "entity_types", <<>>) # <<>>

\* Mutant: the entity types are not looked at before the call; with nothing
\* to offer, the answer is an empty graph
extract_graph_with_llm_NoTypeCheck(text, ontology, outcome) ==
    IF ~client
    THEN HTTPException(503, <<"OpenAI client not configured.">>)
    ELSE IF outcome = NotCalled
    THEN [raised |-> FALSE, graph |-> EmptyGraph]
    ELSE ParseAndRepair(outcome)

\* extract_graph_with_llm(text, ontology), the LLM answering with outcome
extract_graph_with_llm(text, ontology, outcome) ==
    IF ~client
    THEN HTTPException(503, <<"OpenAI client not configured.">>)
    ELSE IF Get(get_ontology_by_name(ontology), "entity_types", <<>>) = <<>>
    THEN HTTPException(400,
             <<"Ontology not initialized. Please call the /ontologies endpoint first.">>)
    ELSE ParseAndRepair(outcome)

-----------------------------------------------------------------------------
(* Stamping and the response models *)

\* F of the value of v, v evaluated once
Apply(F(_), v) == CHOOSE y \in { F(x) : x \in {v} } : TRUE

\* if "type" not in entity: take types[0], or "Unknown"  (/extract-graph only)
PatchType(entity) ==
    IF "type" \notin DOMAIN entity
    THEN IF "types" \in DOMAIN entity /\ entity["types"].list
            /\ entity["types"].items # <<>>
         THEN Put(entity, "type", entity["types"].items[1])
         ELSE Put(entity, "type", Unknown)
    ELSE entity

\* if "id" not in entity: entity["id"] = generate_entity_id(type, value)
NameEntity(entity, counter) ==
    IF "id" \notin DOMAIN entity
    THEN Put(entity, "id",
             generate_entity_id(Get(entity, "type", <<>>), Get(entity, "value", <<>>),
                                counter + 1))
    ELSE entity

\* if "id" not in rel: rel["id"] = generate_relationship_id(source, target, type)
NameRelationship(rel, counter) ==
    IF "id" \notin DOMAIN rel
    THEN Put(rel, "id",
             generate_relationship_id(Get(rel, "source", <<>>), Get(rel, "target", <<>>),
                                      Get(rel, "type", <<>>), counter + 1))
    ELSE rel

\* The number of uuid4 values drawn once x has its id
Drawn(x, counter) == IF "id" \notin DOMAIN x THEN counter + 1 ELSE counter

\* The loop over entities of the graph endpoints: with patch, the /extract-graph
\* loop (which first patches a missing type); without, the batch loop.  An
\* element that is not a dict raises where the loop first writes to it.
RECURSIVE StampEntities(_, _, _, _, _)
StampEntities(entities, ontology_config, objects, counter, patch) ==
    IF entities = <<>>
    THEN [raised |-> FALSE, items |-> <<>>, objects |-> objects, counter |-> counter]
    ELSE IF ~IsDict(Head(entities))
    THEN [raised |-> TRUE, exc |-> "TypeError", items |-> <<>>,
          objects |-> objects, counter |-> counter]
    ELSE Apply(LAMBDA named :
                 Apply(LAMBDA rest :
                         [rest EXCEPT !.items =
                             << Put(named, "graph_data",
                                    EntityGraphData(named, ontology_config)) >> \o @],
                       StampEntities(Tail(entities), ontology_config,
                                     StoreEntity(objects, named, ontology_config),
                                     Drawn(Head(entities), counter), patch)),
               NameEntity(IF patch THEN PatchType(Head(entities)) ELSE Head(entities),
                          counter))

\* The loop over relationships of the graph endpoints
RECURSIVE StampRelationships(_, _, _, _)
StampRelationships(relationships, ontology_config, objects, counter) ==
    IF relationships = <<>>
    THEN [raised |-> FALSE, items |-> <<>>, objects |-> objects, counter |-> counter]
    ELSE IF ~IsDict(Head(relationships))
    THEN [raised |-> TRUE, exc |-> "AttributeError", items |-> <<>>,
          objects |-> objects, counter |-> counter]
    ELSE Apply(LAMBDA named :
                 Apply(LAMBDA rest :
                         [rest EXCEPT !.items =
                             << Put(named, "graph_data",
                                    RelationshipGraphData(named, ontology_config)) >> \o @],
                       StampRelationships(Tail(relationships), ontology_config,
                                          StoreRelationship(objects, named, ontology_config),
                                          Drawn(Head(relationships), counter))),
               NameRelationship(Head(relationships), counter))

\* Entity(**e): the required fields must be there, undeclared keys are dropped
EntityFields == {"id", "type", "value", "confidence", "properties", "start", "end",
                 "spacy_label", "context", "graph_data"}
EntityValid(e) == {"id", "type", "value"} \subseteq DOMAIN e
EntityModel(e) == [k \in DOMAIN e \cap EntityFields |-> e[k]]

\* Relationship(**r)
RelationshipFields == {"id", "source", "target", "type", "confidence", "explanation",
                       "graph_data"}
RelationshipValid(r) == {"id", "source", "target", "type"} \subseteq DOMAIN r
RelationshipModel(r) == [k \in DOMAIN r \cap RelationshipFields |-> r[k]]

DefaultRefinementInfo ==
    <<"Graph generated directly by LLM based on dynamic ontology.">>

\* GraphResponse(...) over the stamped lists es.items and rs.items
\* (request ids, timestamps, the database pass-through and the embedding of
\* the external embedding model are left out)
BuildResponse(graph_data, text, ontology, es, rs) ==
    IF \/ \E i \in 1..Len(es.items) : ~EntityValid(es.items[i])
       \/ \E i \in 1..Len(rs.items) : ~RelationshipValid(rs.items[i])
    THEN [raised |-> TRUE, exc |-> "ValidationError", objects |-> rs.objects,
          counter |-> rs.counter]
    ELSE [raised |-> FALSE, objects |-> rs.objects, counter |-> rs.counter,
          result |->
            [entities |-> [i \in 1..Len(es.items) |-> EntityModel(es.items[i])],
             relationships |->
                 [i \in 1..Len(rs.items) |-> RelationshipModel(rs.items[i])],
             refinement_info |-> Get(graph_data, "refinement_info", DefaultRefinementInfo),
             ontology_used |-> ontology,
             graph_metadata |->
                 [text_length |-> Len(text),
                  entity_count |-> Len(es.items),
                  relationship_count |-> Len(rs.items),
                  ontology_used |-> NameOrDefault(ontology)]]]

\* What both graph endpoints do with the dictionary extract_graph_with_llm
\* returned: stamp the entities, stamp the relationships, build the response
StampGraph(graph_data, text, ontology, objects, counter, patch) ==
    Apply(LAMBDA ontology_config :
            Apply(LAMBDA es :
                    IF es.raised
                    THEN [raised |-> TRUE, exc |-> es.exc, objects |-> es.objects,
                          counter |-> es.counter]
                    ELSE Apply(LAMBDA rs :
                                 IF rs.raised
                                 THEN [raised |-> TRUE, exc |-> rs.exc,
                                       objects |-> rs.objects, counter |-> rs.counter]
                                 ELSE BuildResponse(graph_data, text, ontology, es, rs),
                               StampRelationships(Get(graph_data, "relationships", <<>>),
                                                  ontology_config, es.objects, es.counter)),
                  StampEntities(Get(graph_data, "entities", <<>>), ontology_config,
                                objects, counter, patch)),
          get_ontology_by_name(ontology))

\* str(e) of a raised exception
ExcText(r) == IF r.exc = "HTTPException" THEN r.detail ELSE <<r.exc>>

-----------------------------------------------------------------------------
(* POST /extract-graph *)

Text1 == <<"t", "1">>
Text2 == <<"d", "o", "c", "2">>
Texts == {Text1, Text2}
SingleTexts == {Text1}      \* the texts sent to /extract-graph
ExtractionNames == {NoName, "A"}

\* The body of extract_graph_endpoint, the LLM answering with outcome
ExtractGraph(text, ontology, outcome, objects, counter) ==
    Apply(LAMBDA graph_data :
            IF graph_data.raised
            THEN [raised |-> TRUE, exc |-> graph_data.exc, status |-> graph_data.status,
                  detail |-> graph_data.detail, objects |-> objects, counter |-> counter]
            ELSE Apply(LAMBDA stamped :
                         IF stamped.raised
                         THEN [raised |-> TRUE, exc |-> stamped.exc, status |-> 500,
                               detail |-> <<"Internal Server Error">>,
                               objects |-> stamped.objects, counter |-> stamped.counter]
                         ELSE stamped,
                       StampGraph(graph_data.graph, text, ontology, objects, counter, TRUE)),
          extract_graph_with_llm(text, ontology, outcome))

\* POST /extract-graph, the LLM answering with one of outcomes
extract_graph_answered(text, ontology, outcomes) ==
    /\ Idle
    /\ uuid_counter < MaxUuid
    /\ \E outcome \in (IF LLMReached(ontology) THEN outcomes ELSE {NotCalled}) :
         \E done \in {ExtractGraph(text, ontology, outcome, EXTRACTED_OBJECTS,
                                   uuid_counter)} :
            /\ EXTRACTED_OBJECTS' = done.objects
            /\ uuid_counter' = done.counter
            /\ response' =
                 IF done.raised
                 THEN [handler |-> "extract_graph", status |-> done.status,
                       detail |-> done.detail]
                 ELSE [handler |-> "extract_graph", status |-> 200,
                       body |-> done.result]
            /\ lastCall' =
                 [handler |-> "extract_graph", text |-> text, ontology |-> ontology,
                  outcome |-> outcome, counter |-> uuid_counter,
                  prompt |-> IF outcome = NotCalled THEN <<>>
                             ELSE <<BuildPrompt(get_ontology_by_name(ontology), text)>>]
    /\ UNCHANGED <<libVars, ontoVars, client, regLog, batch>>

extract_graph_endpoint(text, ontology) ==
    extract_graph_answered(text, ontology, LLMOutcomes)

-----------------------------------------------------------------------------
(* POST /batch-extract-graph: one step per document of the for loop.  The   *)
(* handler never awaits, so no other handler runs until it has returned.    *)

\* The slot of the results list the except branch builds
ErrorResult(e, ontology, i) ==
    [entities |-> <<>>,
     relationships |-> <<>>,
     refinement_info |-> <<"Error processing text: ">> \o ExcText(e),
     ontology_used |-> ontology,
     graph_metadata |-> [error |-> ExcText(e), text_index |-> i]]

\* One iteration of the for loop: the try block and its except branch
BatchSlot(text, ontology, outcome, objects, counter, i) ==
    Apply(LAMBDA graph_data :
            IF graph_data.raised
            THEN [failed |-> TRUE, result |-> ErrorResult(graph_data, ontology, i),
                  objects |-> objects, counter |-> counter]
            ELSE Apply(LAMBDA stamped :
                         IF stamped.raised
                         THEN [failed |-> TRUE,
                               result |-> ErrorResult(stamped, ontology, i),
                               objects |-> stamped.objects, counter |-> stamped.counter]
                         ELSE [failed |-> FALSE,
                               result |->
                                  [stamped.result EXCEPT !.graph_metadata =
                                      Put(@, "batch_index", i)],
                               objects |-> stamped.objects, counter |-> stamped.counter],
                       StampGraph(graph_data.graph, text, ontology, objects, counter, FALSE)),
          extract_graph_with_llm(text, ontology, outcome))

\* Mutant: the except branch starts the results list afresh
AppendResult_ResetOnError(results, result) ==
    IF "error" \in DOMAIN result.graph_metadata THEN <<result>>
    ELSE Append(results, result)

\* Mutant: a result is put in front of the earlier ones
AppendResult_InFront(results, result) == <<result>> \o results

\* results.append(result) and results.append(error_result)
AppendResult(results, result) == Append(results, result)

\* The batches of the bounded runs: up to MaxBatch texts, all Text1 but at
\* most one (two equal texts included)
BatchTexts ==
    { [i \in 1..n |-> IF i = d THEN Text2 ELSE Text1] : n \in 0..MaxBatch, d \in 0..MaxBatch }

\* The answers the LLM gives to the documents of a batch: the transport
\* failure, the truncated text, the well-formed graph, the non-dict element
\* and the entity with an empty types list
BatchOutcomes ==
    { o \in LLMOutcomes :
        \/ o.kind = "transport_error"
        \/ /\ o.kind = "content"
           /\ o.content.kind = "text"
           /\ \/ o.content.json = GoodGraph
              \/ /\ o.content.complete
                 /\ o.content.json.t = "object"
                 /\ "entities" \in DOMAIN o.content.json.fields
                 /\ \E i \in 1..Len(o.content.json.fields.entities) :
                       LET e == o.content.json.fields.entities[i]
                       IN ~IsDict(e) \/ "types" \in DOMAIN e }

batch_begin(texts, ontology) ==
    /\ Idle
    /\ uuid_counter < MaxBatchUuid
    /\ batch' = [pc |-> "running", texts |-> texts, ontology |-> ontology, i |-> 0,
                 results |-> <<>>, outcomes |-> <<>>, counters |-> <<>>]
    /\ response' = [handler |-> "batch_extract_graph", status |-> 0]
    /\ lastCall' = NoCall
    /\ UNCHANGED <<libVars, ontoVars, EXTRACTED_OBJECTS, client, uuid_counter, regLog>>

\* The rest of an iteration of the for loop once the LLM has answered with one
\* of outcomes (or was not called); the loop then stands before the next text
batch_iteration(outcomes) ==
    /\ batch.i < Len(batch.texts)
    /\ LET i == batch.i
           text == batch.texts[i + 1]
       IN \E outcome \in outcomes :
            \E slot \in {BatchSlot(text, batch.ontology, outcome, EXTRACTED_OBJECTS,
                                    uuid_counter, i)} :
               /\ EXTRACTED_OBJECTS' = slot.objects
               /\ uuid_counter' = slot.counter
               /\ batch' = [batch EXCEPT
                              !.pc = "running",
                              !.i = i + 1,
                              !.results = AppendResult(@, slot.result),
                              !.outcomes = Append(@, outcome),
                              !.counters = Append(@, uuid_counter)]
    /\ UNCHANGED <<libVars, ontoVars, client, response, regLog, lastCall>>

\* One iteration of the for loop as a single step
batch_document ==
    /\ batch.pc = "running"
    /\ batch_iteration(IF LLMReached(batch.ontology) THEN BatchOutcomes ELSE {NotCalled})

\* The same iteration in two steps.  batch_call: the iteration gets as far as
\* client.chat.completions.create, a synchronous call: the handler, and with
\* it the event loop, waits for the answer.  batch_answer: the answer arrives
\* and the iteration runs to its end.  batch_refused: an iteration that raises
\* before it calls the LLM.
batch_call ==
    /\ batch.pc = "running"
    /\ batch.i < Len(batch.texts)
    /\ LLMReached(batch.ontology)
    /\ batch' = [batch EXCEPT !.pc = "calling"]
    /\ UNCHANGED <<libVars, ontoVars, EXTRACTED_OBJECTS, client, uuid_counter, response,
                   regLog, lastCall>>

batch_answer ==
    /\ batch.pc = "calling"
    /\ batch_iteration(BatchOutcomes)

batch_refused ==
    /\ batch.pc = "running"
    /\ ~LLMReached(batch.ontology)
    /\ batch_iteration({NotCalled})

\* The documents of the running batch whose LLM call has been issued and has
\* not returned yet
InFlight == IF batch.pc = "calling" THEN {batch.i + 1} ELSE {}

batch_return ==
    /\ batch.pc = "running"
    /\ batch.i = Len(batch.texts)
    /\ response' = [handler |-> "batch_extract_graph", status |-> 200,
                    body |-> batch.results]
    /\ lastCall' = [handler |-> "batch_extract_graph", texts |-> batch.texts,
                    ontology |-> batch.ontology, outcomes |-> batch.outcomes,
                    counters |-> batch.counters]
    /\ batch' = NoBatch
    /\ UNCHANGED <<libVars, ontoVars, EXTRACTED_OBJECTS, client, uuid_counter, regLog>>

-----------------------------------------------------------------------------
(* Object Registry: GET /object/{object_id} and GET /search-objects *)

MaxLimit == 3       \* the limits sent to /search-objects are 0..MaxLimit

NoType == ""        \* Optional[str] that is None or "": both are falsy
NeverStamped == <<"n", "o", "p", "e">>

\* Mutant: the lookup answers with the oldest record, whatever the id
ObjectResponse_Oldest(objects, object_id) ==
    IF objects # <<>>
    THEN [handler |-> "get_object_by_id", status |-> 200,
          object_id |-> object_id, object_data |-> objects[1].val]
    ELSE [handler |-> "get_object_by_id", status |-> 404,
          detail |-> <<"Object with ID '">> \o object_id \o <<"' not found">>]

\* What get_object_by_id returns or raises
ObjectResponse(objects, object_id) ==
    IF Has(objects, object_id)
    THEN [handler |-> "get_object_by_id", status |-> 200,
          object_id |-> object_id, object_data |-> Lookup(objects, object_id)]
    ELSE [handler |-> "get_object_by_id", status |-> 404,
          detail |-> <<"Object with ID '">> \o object_id \o <<"' not found">>]

\* GET /object/{object_id}
get_object_by_id(object_id) ==
    /\ Idle
    /\ response' = ObjectResponse(EXTRACTED_OBJECTS, object_id)
    /\ lastCall' = [handler |-> "get_object_by_id", object_id |-> object_id]
    /\ UNCHANGED <<libVars, ontoVars, EXTRACTED_OBJECTS, client, uuid_counter, regLog, batch>>

\* The obj_info dictionary search_objects builds for a record (the clock left out)
ObjInfo(obj_id, obj_data) ==
    [id |-> obj_id,
     type |-> Get(obj_data, "type", "unknown"),
     value |-> Get(obj_data, "value", <<>>),
     entity_type |-> Get(obj_data, "entity_type", <<>>),
     relationship_type |-> Get(obj_data, "relationship_type", <<>>),
     graph_data |-> Get(obj_data, "graph_data", <<>>)]

\* Mutant: the substring is looked for as it was typed
RECURSIVE SearchLoop_CaseSensitive(_, _, _, _, _)
SearchLoop_CaseSensitive(objects, object_type, value, limit, results) ==
    IF objects = <<>> THEN results
    ELSE LET obj_id == Head(objects).key
             obj_data == Head(objects).val
         IN IF object_type # NoType /\ Get(obj_data, "type", NoType) # object_type
            THEN SearchLoop_CaseSensitive(Tail(objects), object_type, value, limit, results)
            ELSE IF value # <<>> /\ ~Contains(value, Get(obj_data, "value", <<>>))
            THEN SearchLoop_CaseSensitive(Tail(objects), object_type, value, limit, results)
            ELSE IF Len(results) + 1 >= limit
            THEN Append(results, ObjInfo(obj_id, obj_data))
            ELSE SearchLoop_CaseSensitive(Tail(objects), object_type, value, limit,
                                          Append(results, ObjInfo(obj_id, obj_data)))

\* The for loop of search_objects over the records not yet visited
RECURSIVE SearchLoop(_, _, _, _, _)
SearchLoop(objects, object_type, value, limit, results) ==
    IF objects = <<>> THEN results
    ELSE LET obj_id == Head(objects).key
             obj_data == Head(objects).val
         IN IF object_type # NoType /\ Get(obj_data, "type", NoType) # object_type
            THEN SearchLoop(Tail(objects), object_type, value, limit, results)
            ELSE IF value # <<>>
                    /\ ~Contains(Lower(value), Lower(Get(obj_data, "value", <<>>)))
            THEN SearchLoop(Tail(objects), object_type, value, limit, results)
            ELSE IF Len(results) + 1 >= limit
            THEN Append(results, ObjInfo(obj_id, obj_data))
            ELSE SearchLoop(Tail(objects), object_type, value, limit,
                            Append(results, ObjInfo(obj_id, obj_data)))

\* GET /search-objects?object_type=..&value=..&limit=..
search_objects(object_type, value, limit) ==
    /\ Idle
    /\ \E results \in {SearchLoop(EXTRACTED_OBJECTS, object_type, value, limit, <<>>)} :
          response' = [handler |-> "search_objects", status |-> 200,
                       total_found |-> Len(results), limit |-> limit,
                       filters |-> [object_type |-> object_type, value |-> value],
                       objects |-> results]
    /\ lastCall' = [handler |-> "search_objects", object_type |-> object_type,
                    value |-> value, limit |-> limit]
    /\ UNCHANGED <<libVars, ontoVars, EXTRACTED_OBJECTS, client, uuid_counter, regLog, batch>>

-----------------------------------------------------------------------------
(* NLP client (client.py) and the request models that receive its payloads *)

\* payload of NLPServiceClient.update_ontology: the arguments that are not
\* None, the name under the key "ontology_name"
UpdateOntologyPayload(args) ==
    [k \in {"entity_types", "relationship_types"}
            \cup (IF args.ontology_name # NoName THEN {"ontology_name"} ELSE {}) |->
        args[k]]

\* payload of NLPServiceClient.extract_graph
ExtractGraphPayload(text, ontology_name) ==
    IF ontology_name # NoName
    THEN [text |-> text, ontology_name |-> ontology_name]
    ELSE [text |-> text]

\* payload of NLPServiceClient.batch_extract_graph
BatchExtractGraphPayload(texts, ontology_name) ==
    IF ontology_name # NoName
    THEN [texts |-> texts, ontology_name |-> ontology_name]
    ELSE [texts |-> texts]

\* OntologyUpdateRequest(**payload): each declared field from the payload or
\* at its default; a key that is no declared field is ignored
ParseOntologyUpdateRequest(payload) ==
    OntologyUpdateRequest(Get(payload, "ontology", NoName),
                          Get(payload, "entity_types", <<>>),
                          Get(payload, "relationship_types", <<>>),
                          Get(payload, "property_types", <<>>),
                          Get(payload, "entity_descriptions", <<>>),
                          Get(payload, "relationship_descriptions", <<>>),
                          Get(payload, "compact_ontology", <<>>))

\* ExtractionRequest(**payload)
ParseExtractionRequest(payload) ==
    [text |-> payload.text, ontology |-> Get(payload, "ontology", NoName)]

\* BatchExtractionRequest(**payload)
ParseBatchExtractionRequest(payload) ==
    [texts |-> payload.texts, ontology |-> Get(payload, "ontology", NoName)]

\* The calls the client makes in the bounded runs.  Each registration has its
\* own name and its own entity types, each extraction its own text.
ClientRegistrations ==
    { [ontology_name |-> "A", entity_types |-> <<Person>>,
       relationship_types |-> <<WORKS_AT>>],
      [ontology_name |-> "B", entity_types |-> <<Org>>,
       relationship_types |-> <<OWNS>>] }

ClientExtractions ==
    { [text |-> Text1, ontology_name |-> "A"], [text |-> Text2, ontology_name |-> "B"] }

ClientBatches ==
    { [texts |-> <<Text1, Text2>>, ontology_name |-> "A"],
      [texts |-> <<Text2>>, ontology_name |-> "B"] }

\* NLPServiceClient.update_ontology(entity_types=.., relationship_types=..,
\* ontology_name=..) and the POST /ontologies it sends
client_update_ontology(args) ==
    update_ontologies(ParseOntologyUpdateRequest(UpdateOntologyPayload(args)))

\* NLPServiceClient.extract_graph(text, ontology_name) and its POST /extract-graph
client_extract_graph(text, ontology_name) ==
    LET request == ParseExtractionRequest(ExtractGraphPayload(text, ontology_name))
    IN extract_graph_answered(request.text, request.ontology,
                              {Answer(JsonText(GoodGraph, TRUE))})

\* NLPServiceClient.batch_extract_graph(texts, ontology_name): the handler
\* of its POST /batch-extract-graph starts
client_batch_extract_graph(texts, ontology_name) ==
    LET request ==
            ParseBatchExtractionRequest(BatchExtractGraphPayload(texts, ontology_name))
    IN batch_begin(request.texts, request.ontology)

-----------------------------------------------------------------------------
(* _make_request of NLPServiceClient (nlp-service/client.py) and of         *)
(* KnowledgeGraphClient (knowledge-graph-client/client.py)                  *)

MaxRetries == 2     \* the clients are constructed with retries in 0..MaxRetries

Libraries == {"nlp", "kg"}

\* The exception class of each library; neither derives from RequestException
ServiceError(lib) ==
    IF lib = "nlp" THEN "NLPServiceError" ELSE "KnowledgeGraphClientError"

\* What self.session.request(..) does on one attempt: it raises a
\* RequestException (no connection, timeout), or it returns a response with a
\* status and a body that is JSON text, other text, or empty
Statuses == {200, 204, 404, 500}
Bodies == {"json", "text", "empty"}
TransportOutcomes ==
    {[kind |-> "exception", status |-> 0, body |-> "empty"]}
        \cup {[kind |-> "response", status |-> st, body |-> b] : st \in Statuses, b \in Bodies}

Returned(value) == [kind |-> "return", value |-> value, exc |-> "none", message |-> "none"]
Raised(exc, message) == [kind |-> "raise", value |-> "none", exc |-> exc, message |-> message]

\* response.json(): the decoded body, or the JSONDecodeError of the installed
\* requests: a RequestException since requests 2.27, a plain ValueError before
response_json(body, modern) ==
    IF body = "json" THEN Returned("body")
    ELSE Raised(IF modern THEN "RequestException" ELSE "ValueError", "JSONDecodeError")

\* The error branch of NLPServiceClient: the detail is read under a bare
\* except, then the service error is raised
ErrorResponseNLP(outcome) == Raised(ServiceError("nlp"), "HTTP")

\* The error branch of KnowledgeGraphClient: the service error is built with
\* response.json() if response.content else None
ErrorResponseKG(outcome, modern) ==
    IF outcome.body # "empty" /\ response_json(outcome.body, modern).kind = "raise"
    THEN response_json(outcome.body, modern)
    ELSE Raised(ServiceError("kg"), "HTTP")

\* The try block of one attempt
TryRequest(lib, outcome, modern) ==
    IF outcome.kind = "exception" THEN Raised("RequestException", "ConnectionError")
    ELSE IF outcome.status = 204 THEN Returned("{}")
    ELSE IF outcome.status < 400
    THEN IF outcome.body = "empty" THEN Returned("{}")
         ELSE response_json(outcome.body, modern)
    ELSE IF lib = "nlp" THEN ErrorResponseNLP(outcome)
    ELSE ErrorResponseKG(outcome, modern)

\* if attempt == self.retries
LastAttempt(attempt, retries) == attempt = retries

\* time.sleep(2 ** attempt)
Backoff(attempt) == 2 ^ attempt

NoRequest == [pc |-> "idle"]

\* _make_request is called on a client constructed with retries, under an
\* installation whose requests is modern or not
make_request(lib, retries, modern) ==
    /\ http.pc # "attempting"
    /\ http' = [pc |-> "attempting", lib |-> lib, retries |-> retries,
                modern |-> modern, attempt |-> 0, sent |-> 0, slept |-> <<>>,
                outcomes |-> <<>>, result |-> Returned("none")]
    /\ UNCHANGED <<ontoVars, EXTRACTED_OBJECTS, client, uuid_counter, response, regLog,
                   lastCall, batch, spacy>>

\* One iteration of the for loop: the request, the try block, the except
\* clause and the sleep before the next iteration
make_request_attempt(outcome) ==
    /\ http.pc = "attempting"
    /\ \E tried \in {TryRequest(http.lib, outcome, http.modern)} :
          http' =
            IF tried.kind = "raise" /\ tried.exc = "RequestException"
            THEN IF LastAttempt(http.attempt, http.retries)
                 THEN [http EXCEPT !.pc = "done", !.sent = @ + 1,
                                   !.outcomes = Append(@, outcome),
                                   !.result = Raised(ServiceError(http.lib),
                                                     "Request failed after retries")]
                 ELSE [http EXCEPT !.attempt = @ + 1, !.sent = @ + 1,
                                   !.outcomes = Append(@, outcome),
                                   !.slept = Append(@, Backoff(http.attempt))]
            ELSE [http EXCEPT !.pc = "done", !.sent = @ + 1,
                              !.outcomes = Append(@, outcome),
                              !.result = tried]
    /\ UNCHANGED <<ontoVars, EXTRACTED_OBJECTS, client, uuid_counter, response, regLog,
                   lastCall, batch, spacy>>

-----------------------------------------------------------------------------
(* _deduplicate_entities of SpacyEntityExtractor                            *)
(* (scripts/spacy_entity_extractor.py)                                      *)

MaxEntities == 3    \* entities in one input list
MaxEnd == 3         \* spans lie within the characters 0..MaxEnd

Confidences == {50, 90}

\* The entities of the input lists: a non-empty span start..end and a confidence
EntityPool ==
    { [start |-> a, end |-> b, confidence |-> c] :
        a \in 0..(MaxEnd - 1), b \in 1..MaxEnd, c \in Confidences }
      \ { e \in [start : 0..MaxEnd, end : 0..MaxEnd, confidence : Confidences] :
            e.end <= e.start }

EntityLists == UNION { [1..n -> EntityPool] : n \in 0..MaxEntities }

\* Mutant: two entities overlap only if they start at the same character
entities_overlap_SameStart(ent1, ent2) == ent1.start = ent2.start

\* _entities_overlap
entities_overlap(ent1, ent2) ==
    ~(ent1.end <= ent2.start \/ ent2.end <= ent1.start)

\* The key (x['start'], -x['confidence']) of a is less than that of b
KeyLess(a, b) ==
    \/ a.start < b.start
    \/ a.start = b.start /\ (0 - a.confidence) < (0 - b.confidence)

\* sorted(..) is stable: an entity goes behind those of a key not greater
RECURSIVE InsertSorted(_, _)
InsertSorted(seq, x) ==
    IF seq = <<>> THEN <<x>>
    ELSE IF KeyLess(x, Head(seq)) THEN <<x>> \o seq
    ELSE <<Head(seq)>> \o InsertSorted(Tail(seq), x)

RECURSIVE sorted(_)
sorted(entities) ==
    IF entities = <<>> THEN <<>>
    ELSE InsertSorted(sorted(SubSeq(entities, 1, Len(entities) - 1)),
                      entities[Len(entities)])

\* list.remove(x): the first element equal to x is taken out
RECURSIVE ListRemove(_, _)
ListRemove(seq, x) ==
    IF seq = <<>> THEN <<>>
    ELSE IF Head(seq) = x THEN Tail(seq)
    ELSE <<Head(seq)>> \o ListRemove(Tail(seq), x)

\* for existing in deduplicated: the list iterator stands at index k (from 1)
\* of the list as it is now, removals included
RECURSIVE ExistingLoop(_, _, _)
ExistingLoop(entity, deduplicated, k) ==
    IF k > Len(deduplicated) THEN [overlap |-> FALSE, deduplicated |-> deduplicated]
    ELSE LET existing == deduplicated[k]
         IN IF entities_overlap(entity, existing)
            THEN IF entity.confidence > existing.confidence
                 THEN ExistingLoop(entity, ListRemove(deduplicated, existing), k + 1)
                 ELSE [overlap |-> TRUE, deduplicated |-> deduplicated]
            ELSE ExistingLoop(entity, deduplicated, k + 1)

\* for entity in sorted_entities
RECURSIVE EntityLoop(_, _)
EntityLoop(sorted_entities, deduplicated) ==
    IF sorted_entities = <<>> THEN deduplicated
    ELSE LET entity == Head(sorted_entities)
             looked == ExistingLoop(entity, deduplicated, 1)
         IN EntityLoop(Tail(sorted_entities),
                       IF looked.overlap THEN looked.deduplicated
                       ELSE Append(looked.deduplicated, entity))

deduplicate_entities(entities) == EntityLoop(sorted(entities), <<>>)

NoInput == [called |-> FALSE, entities |-> <<>>, deduplicated |-> <<>>]

\* The call of _deduplicate_entities on the list handed to it
deduplicate ==
    /\ ~spacy.called
    /\ \E deduplicated \in {deduplicate_entities(spacy.entities)} :
          spacy' = [spacy EXCEPT !.called = TRUE, !.deduplicated = deduplicated]
    /\ UNCHANGED <<ontoVars, EXTRACTED_OBJECTS, client, uuid_counter, response, regLog,
                   lastCall, batch, http>>

-----------------------------------------------------------------------------
(* The state after the module is imported *)

Init ==
    /\ ONTOLOGIES = <<>>
    /\ VALID_ONTOLOGY_TYPES = <<>>
    /\ VALID_RELATIONSHIP_TYPES = <<>>
    /\ PROPERTY_ENTITY_TYPES = <<>>
    /\ ENTITY_DESCRIPTIONS = <<>>
    /\ RELATIONSHIP_DESCRIPTIONS = <<>>
    /\ EXTRACTED_OBJECTS = <<>>
    /\ client \in BOOLEAN
    /\ uuid_counter = 0
    /\ response = [handler |-> "none", status |-> 0]
    /\ regLog = <<>>
    /\ lastCall = NoCall
    /\ batch = NoBatch
    /\ http = NoRequest
    /\ spacy = NoInput

\* The registry alone: registrations and listings
NextOnto ==
    \/ \E request \in OntologyRequests : update_ontologies(request)
    \/ get_ontologies

SpecOnto == Init /\ [][NextOnto]_vars

\* Registrations and single-document extraction
Next ==
    \/ \E request \in ExtractionOntologyRequests : update_ontologies(request)
    \/ \E text \in SingleTexts, ontology \in ExtractionNames :
          extract_graph_endpoint(text, ontology)

Spec == Init /\ [][Next]_vars

\* The registrations sent between batches: those that bring entity types
BatchOntologyRequests ==
    { request \in ExtractionOntologyRequests :
        request.entity_types # <<>> \/ request.compact_ontology # <<>> }

\* Registrations and batch extraction
NextBatch ==
    \/ \E request \in BatchOntologyRequests : update_ontologies(request)
    \/ \E texts \in BatchTexts, ontology \in ExtractionNames :
          batch_begin(texts, ontology)
    \/ batch_document
    \/ batch_return

SpecBatch == Init /\ [][NextBatch]_vars

\* Single-document and batch extraction side by side, under the ontology "A"
NextMixed ==
    \/ \E request \in {r \in ExtractionOntologyRequests : r.ontology = "A"} :
          update_ontologies(request)
    \/ \E text \in SingleTexts : extract_graph_endpoint(text, "A")
    \/ \E texts \in BatchTexts : batch_begin(texts, "A")
    \/ batch_document
    \/ batch_return

SpecMixed == Init /\ [][NextMixed]_vars

\* The answers of the object-registry runs: the well-formed graph and the
\* graphs whose entities all carry an id of their own
ObjectsOutcomes ==
    { o \in LLMOutcomes :
        /\ o.kind = "content"
        /\ o.content.kind = "text"
        /\ o.content.complete
        /\ o.content.json.t = "object"
        /\ "entities" \in DOMAIN o.content.json.fields
        /\ \/ o.content.json = GoodGraph
           \/ \A i \in 1..Len(o.content.json.fields.entities) :
                 "id" \in DOMAIN o.content.json.fields.entities[i] }

\* Registrations and batch extraction, the LLM call of a document a step of
\* its own
NextCalls ==
    \/ \E request \in BatchOntologyRequests : update_ontologies(request)
    \/ \E texts \in BatchTexts, ontology \in ExtractionNames :
          batch_begin(texts, ontology)
    \/ batch_call
    \/ batch_answer
    \/ batch_refused
    \/ batch_return

SpecCalls == Init /\ [][NextCalls]_vars

\* The service as the client library drives it
NextClient ==
    \/ \E args \in ClientRegistrations : client_update_ontology(args)
    \/ \E call \in ClientExtractions : client_extract_graph(call.text, call.ontology_name)
    \/ \E call \in ClientBatches :
          client_batch_extract_graph(call.texts, call.ontology_name)
    \/ batch_document
    \/ batch_return

SpecClient == Init /\ [][NextClient]_vars

\* An answer that strays from the ontology and from its own entities: an
\* entity of a property-like type, a relationship of a type without
\* description whose target is no entity of the graph
StrayGraph ==
    JsonGraph(<< [value |-> Alice, type |-> Person],
                 [value |-> AliceMail, type |-> Email] >>,
              << [source |-> Alice, target |-> AcmeCo, type |-> OWNS],
                 [source |-> Alice, target |-> AliceMail, type |-> WORKS_AT] >>)

GraphOutcomes == {Answer(JsonText(GoodGraph, TRUE)), Answer(JsonText(StrayGraph, TRUE))}

\* Registrations and single-document extraction, the LLM answering with graphs
NextGraphs ==
    \/ \E request \in ExtractionOntologyRequests : update_ontologies(request)
    \/ \E text \in SingleTexts, ontology \in ExtractionNames :
          extract_graph_answered(text, ontology, GraphOutcomes)

SpecGraphs == Init /\ [][NextGraphs]_vars

\* The request loop of the client libraries
NextRetry ==
    \/ \E lib \in Libraries, retries \in 0..MaxRetries, modern \in BOOLEAN :
          make_request(lib, retries, modern)
    \/ \E outcome \in TransportOutcomes : make_request_attempt(outcome)

SpecRetry == Init /\ [][NextRetry]_vars

\* The deduplication of the spaCy extractor, over every list of EntityLists
InitDedup ==
    /\ ONTOLOGIES = <<>>
    /\ VALID_ONTOLOGY_TYPES = <<>>
    /\ VALID_RELATIONSHIP_TYPES = <<>>
    /\ PROPERTY_ENTITY_TYPES = <<>>
    /\ ENTITY_DESCRIPTIONS = <<>>
    /\ RELATIONSHIP_DESCRIPTIONS = <<>>
    /\ EXTRACTED_OBJECTS = <<>>
    /\ client = FALSE
    /\ uuid_counter = 0
    /\ response = [handler |-> "none", status |-> 0]
    /\ regLog = <<>>
    /\ lastCall = NoCall
    /\ batch = NoBatch
    /\ http = NoRequest
    /\ spacy \in {[NoInput EXCEPT !.entities = entities] : entities \in EntityLists}

NextDedup == deduplicate

SpecDedup == InitDedup /\ [][NextDedup]_vars

\* Answers whose entities carry a type and a types list: the list starting
\* with another type, the list starting with the same type, the empty list
TypedGraph ==
    JsonGraph(<< [value |-> Alice, type |-> Person,
                  types |-> [list |-> TRUE, items |-> <<Org, Person>>]],
                 [value |-> AcmeCo, type |-> Org,
                  types |-> [list |-> TRUE, items |-> <<Org>>]] >>,
              << [source |-> Alice, target |-> AcmeCo, type |-> WORKS_AT] >>)

RepairOutcomes ==
    { Answer(JsonText(GoodGraph, TRUE)),
      Answer(JsonText(TypedGraph, TRUE)),
      Answer(JsonText(JsonGraph(
          << [value |-> Alice, type |-> Person,
              types |-> [list |-> TRUE, items |-> <<>>]] >>,
          <<>>), TRUE)) }

\* Registrations and single-document extraction, the LLM answering with typed
\* entities
NextRepair ==
    \/ \E request \in ExtractionOntologyRequests : update_ontologies(request)
    \/ \E text \in SingleTexts, ontology \in ExtractionNames :
          extract_graph_answered(text, ontology, RepairOutcomes)

SpecRepair == Init /\ [][NextRepair]_vars

\* The ids looked up: those of the stored records, the one the LLM may send,
\* and one that is never stamped
ProbeIds == {EXTRACTED_OBJECTS[i].key : i \in 1..Len(EXTRACTED_OBJECTS)}
               \cup {LlmId, NeverStamped}

SearchTypes == {NoType, "entity", "relationship"}
SearchValues == {<<>>, <<"A">>, <<"A", "L">>}

\* Registrations, single-document extraction and the object registry's queries
NextObjects ==
    \/ \E request \in {r \in ExtractionOntologyRequests : r.ontology = NoName} :
          update_ontologies(request)
    \/ \E text \in SingleTexts : extract_graph_answered(text, NoName, ObjectsOutcomes)
    \/ \E object_id \in ProbeIds : get_object_by_id(object_id)
    \/ \E object_type \in SearchTypes, value \in SearchValues, limit \in 0..MaxLimit :
          search_objects(object_type, value, limit)

SpecObjects == Init /\ [][NextObjects]_vars

-----------------------------------------------------------------------------
(* Properties of the Ontology Registry, checked under SpecOnto *)

SetOf(seq) == {seq[i] : i \in 1..Len(seq)}

\* The name a registration request is filed under
EffectiveName(request) ==
    IF request.ontology = NoName THEN "default" ELSE request.ontology

IsCompactForm(request) == DOMAIN request.compact_ontology # {}

\* regLog[i] is the most recent registration under its name
IsLatest(i) ==
    \A j \in (i + 1)..Len(regLog) :
        EffectiveName(regLog[j]) # EffectiveName(regLog[i])

\* The three-element entries of a pattern table, and their middle elements
Triples(table) == SelectSeq(table, LAMBDA entry : Len(entry) = 3)
MiddleElements(table) == [i \in 1..Len(Triples(table)) |-> Triples(table)[i][2]]

\* Names a caller may resolve: those of the bounded runs and one never registered
ProbeNames == OntologyNames \cup {"typo"}

\* C4: after a full-form registration under a name A, followed by any
\* registrations under other names, resolving A (by the name the caller gave)
\* returns exactly the registered entity, relationship and property type lists.
C4_ResolveReturnsRegisteredTypes ==
    \A i \in 1..Len(regLog) :
        (~IsCompactForm(regLog[i]) /\ IsLatest(i)) =>
            \A name \in {regLog[i].ontology, EffectiveName(regLog[i])} :
                /\ get_ontology_by_name(name).entity_types = regLog[i].entity_types
                /\ get_ontology_by_name(name).relationship_types
                      = regLog[i].relationship_types
                /\ get_ontology_by_name(name).property_types
                      = regLog[i].property_types

\* A full-form registration under "A" was followed by a registration of other
\* types under another name
C4_Witness ==
    /\ Len(regLog) = 2
    /\ regLog[1].ontology = "A"
    /\ ~IsCompactForm(regLog[1])
    /\ regLog[1].entity_types = <<Person, Email>>
    /\ EffectiveName(regLog[2]) # "A"
    /\ VALID_ONTOLOGY_TYPES # regLog[1].entity_types
    /\ get_ontology_by_name("A").entity_types = <<Person, Email>>

C6_NothingRegisteredResolvesEmpty ==
    regLog = <<>> =>
        \A name \in ProbeNames :
            /\ get_ontology_by_name(name).entity_types = <<>>
            /\ get_ontology_by_name(name).relationship_types = <<>>
            /\ get_ontology_by_name(name).property_types = <<>>

\* Nothing was registered and the registry has been listed as empty
C6_Witness ==
    /\ regLog = <<>>
    /\ response.handler = "get_ontologies"
    /\ response.available_ontologies = <<>>
    /\ get_ontology_by_name("A").entity_types = <<>>

\* C7: the configuration resolved for a registered name is exactly that of the
\* most recent registration under it: its type lists, descriptions and pattern
\* table (a compact registration has an empty property list and no
\* descriptions, a full one has no pattern table), nothing of an earlier one.
C7_LastRegistrationWinsWholesale ==
    \A i \in 1..Len(regLog) :
        IsLatest(i) =>
            LET request == regLog[i]
                config == get_ontology_by_name(EffectiveName(request))
            IN IF IsCompactForm(request)
               THEN /\ config.entity_types = Get(request.compact_ontology, "e", <<>>)
                    /\ config.relationship_types
                          = MiddleElements(Get(request.compact_ontology, "r", <<>>))
                    /\ config.property_types = <<>>
                    /\ config.entity_descriptions = <<>>
                    /\ config.relationship_descriptions = <<>>
                    /\ "compact_ontology" \in DOMAIN config
                    /\ config.compact_ontology = request.compact_ontology
               ELSE /\ config.entity_types = request.entity_types
                    /\ config.relationship_types = request.relationship_types
                    /\ config.property_types = request.property_types
                    /\ config.entity_descriptions = request.entity_descriptions
                    /\ config.relationship_descriptions
                          = request.relationship_descriptions
                    /\ "compact_ontology" \notin DOMAIN config

\* A compact registration was overwritten by a full one under the same name
C7_Witness ==
    /\ Len(regLog) = 2
    /\ EffectiveName(regLog[1]) = EffectiveName(regLog[2])
    /\ IsCompactForm(regLog[1])
    /\ "r" \in DOMAIN regLog[1].compact_ontology
    /\ ~IsCompactForm(regLog[2])
    /\ regLog[2].entity_descriptions = <<>>
    /\ "compact_ontology" \notin DOMAIN get_ontology_by_name(EffectiveName(regLog[2]))

\* C8: a registration that names no ontology is the configuration resolved
\* with no name and under "default", until "default" is registered again.
C8_UnnamedRegistrationIsDefault ==
    \A i \in 1..Len(regLog) :
        (regLog[i].ontology = NoName /\ IsLatest(i)) =>
            /\ Has(ONTOLOGIES, "default")
            /\ get_ontology_by_name(NoName) = Lookup(ONTOLOGIES, "default")
            /\ get_ontology_by_name("default") = Lookup(ONTOLOGIES, "default")
            /\ Lookup(ONTOLOGIES, "default").entity_types
                  = IF IsCompactForm(regLog[i])
                    THEN Get(regLog[i].compact_ontology, "e", <<>>)
                    ELSE regLog[i].entity_types

\* An unnamed registration was followed by one of other types under "A"
C8_Witness ==
    /\ Len(regLog) = 2
    /\ regLog[1].ontology = NoName
    /\ regLog[1].entity_types = <<Person>>
    /\ regLog[2].ontology = "A"
    /\ VALID_ONTOLOGY_TYPES # <<Person>>
    /\ get_ontology_by_name(NoName).entity_types = <<Person>>

\* C9: every stored configuration has its property-like types among its
\* entity types.
C9_PropertyTypesAreEntityTypes ==
    \A i \in 1..Len(ONTOLOGIES) :
        SetOf(ONTOLOGIES[i].val.property_types)
            \subseteq SetOf(ONTOLOGIES[i].val.entity_types)

\* C10: a compact registration is stored with the table's entity list and, as
\* relationship types, the middle elements of the table's three-element
\* entries in table order; other entries contribute nothing.
C10_CompactFormProjectsTriples ==
    \A i \in 1..Len(regLog) :
        (IsCompactForm(regLog[i]) /\ IsLatest(i)) =>
            LET table == regLog[i].compact_ontology
                config == Lookup(ONTOLOGIES, EffectiveName(regLog[i]))
            IN /\ config.entity_types = Get(table, "e", <<>>)
               /\ config.relationship_types = MiddleElements(Get(table, "r", <<>>))

\* A table with two triples and two entries that are not triples is stored
C10_Witness ==
    /\ Len(regLog) >= 1
    /\ IsCompactForm(regLog[Len(regLog)])
    /\ Len(Get(regLog[Len(regLog)].compact_ontology, "r", <<>>)) = 4
    /\ Lookup(ONTOLOGIES, EffectiveName(regLog[Len(regLog)])).relationship_types
          = <<WORKS_AT, OWNS>>
    /\ Lookup(ONTOLOGIES, EffectiveName(regLog[Len(regLog)])).entity_types
          = <<Org, Person>>

-----------------------------------------------------------------------------
(* Properties of single-document extraction, checked under Spec *)

\* The LLM answered with text that is not a complete JSON document
Unparseable(outcome) ==
    /\ outcome.kind = "content"
    /\ outcome.content.kind = "text"
    /\ ~outcome.content.complete

\* C3: when the LLM answers with text that cannot be parsed as JSON, the
\* single-document extraction answers 200 with no entities, no relationships
\* and a non-empty diagnostic note.
C3_UnparseableAnswerYieldsEmptyGraph ==
    (/\ lastCall.handler = "extract_graph"
     /\ response.handler = "extract_graph"
     /\ Unparseable(lastCall.outcome)) =>
        /\ response.status = 200
        /\ response.body.entities = <<>>
        /\ response.body.relationships = <<>>
        /\ response.body.refinement_info # <<>>

\* /extract-graph has just answered
ExtractReturned ==
    /\ lastCall.handler = "extract_graph"
    /\ response.handler = "extract_graph"

\* The configuration the last extraction resolved
ResolvedConfig == get_ontology_by_name(lastCall.ontology)

\* C11: the entity types put in the prompt are the configuration's entity
\* types without its property-like types, in the configuration's order: no
\* property-like type is offered, no core type is left out.
C11_PromptOffersCoreTypesOnly ==
    (ExtractReturned /\ lastCall.prompt # <<>>) =>
        LET offered == lastCall.prompt[1].e
            entity_types == ResolvedConfig.entity_types
            property_types == ResolvedConfig.property_types
        IN /\ SetOf(offered) = SetOf(entity_types) \ SetOf(property_types)
           /\ offered = SelectSeq(entity_types, LAMBDA t : t \notin SetOf(property_types))

\* The LLM was called under a configuration with a property-like type
C11_Witness ==
    /\ ExtractReturned
    /\ lastCall.prompt # <<>>
    /\ ResolvedConfig.entity_types = <<Person, Email>>
    /\ ResolvedConfig.property_types = <<Email>>
    /\ lastCall.prompt[1].e = <<Person>>

\* C12: with the LLM client configured, a single-document extraction whose
\* resolved configuration has no entity types answers 400 "Ontology not
\* initialized", calls no LLM, and changes neither the ontology registry nor
\* the object registry.
C12_NoEntityTypesIsClientError ==
    [][(/\ response'.handler = "extract_graph"
        /\ client
        /\ Get(get_ontology_by_name(lastCall'.ontology), "entity_types", <<>>) = <<>>)
       => /\ response'.status = 400
          /\ response'.detail =
                <<"Ontology not initialized. Please call the /ontologies endpoint first.">>
          /\ lastCall'.outcome = NotCalled
          /\ lastCall'.prompt = <<>>
          /\ UNCHANGED <<ontoVars, EXTRACTED_OBJECTS, uuid_counter>>]_vars

\* An extraction was refused under a registered configuration without entity
\* types
C12_Witness ==
    /\ ExtractReturned
    /\ client
    /\ Has(ONTOLOGIES, "A")
    /\ lastCall.ontology = "A"
    /\ ResolvedConfig.entity_types = <<>>
    /\ ResolvedConfig.relationship_types = <<WORKS_AT>>
    /\ response.status = 400
    /\ lastCall.outcome = NotCalled

\* The answer is empty, or is JSON whose top level is not an object carrying
\* an entities and a relationships array
NotAGraph(outcome) ==
    /\ outcome.kind = "content"
    /\ \/ outcome.content.kind = "none"
       \/ /\ outcome.content.kind = "text"
          /\ outcome.content.complete
          /\ \/ outcome.content.json.t # "object"
             \/ ~({"entities", "relationships"} \subseteq DOMAIN outcome.content.json.fields)

\* C13: when the LLM answer is empty, or is valid JSON whose top level is not
\* an object with entities and relationships arrays, /extract-graph answers
\* 200 with no entities, no relationships and a non-empty note.
C13_ShapelessAnswerYieldsEmptyGraph ==
    (ExtractReturned /\ NotAGraph(lastCall.outcome)) =>
        /\ response.status = 200
        /\ response.body.entities = <<>>
        /\ response.body.relationships = <<>>
        /\ response.body.refinement_info # <<>>

\* The answer is a JSON object whose entities and relationships are lists
IsGraphAnswer(outcome) ==
    /\ outcome.kind = "content"
    /\ outcome.content.kind = "text"
    /\ outcome.content.complete
    /\ outcome.content.json.t = "object"
    /\ Nulls(outcome.content.json) = {}

\* The lists of the JSON object the LLM answered with
AnswerEntities(outcome) == Get(outcome.content.json.fields, "entities", <<>>)
AnswerRelationships(outcome) == Get(outcome.content.json.fields, "relationships", <<>>)

\* The confidence an object must leave the repair step with: 0.9, or its own
RepairedConfidence(x) == IF "confidence" \in DOMAIN x THEN x.confidence ELSE 90

\* C15: an entity or relationship that enters the repair step without a
\* confidence leaves it with 0.9, one that has a confidence keeps it; so in
\* the repaired graph and in the response built from it.
C15_RepairDefaultsConfidence ==
    (ExtractReturned /\ IsGraphAnswer(lastCall.outcome)) =>
        LET es == AnswerEntities(lastCall.outcome)
            rs == AnswerRelationships(lastCall.outcome)
            repaired == ParseAndRepair(lastCall.outcome).graph
        IN /\ \A i \in 1..Len(es) :
                 IsDict(es[i]) =>
                    /\ repaired.entities[i].confidence = RepairedConfidence(es[i])
                    /\ response.status = 200 =>
                          /\ response.body.entities[i].confidence
                                = RepairedConfidence(es[i])
                          /\ response.body.entities[i].graph_data.confidence
                                = RepairedConfidence(es[i])
           /\ \A i \in 1..Len(rs) :
                 IsDict(rs[i]) =>
                    /\ repaired.relationships[i].confidence = RepairedConfidence(rs[i])
                    /\ response.status = 200 =>
                          response.body.relationships[i].confidence
                             = RepairedConfidence(rs[i])

\* A returned graph: one entity kept its 0.5, one got 0.9, the relationship
\* kept its 0.7
C15_Witness ==
    /\ ExtractReturned
    /\ response.status = 200
    /\ Len(response.body.entities) = 2
    /\ "confidence" \in DOMAIN AnswerEntities(lastCall.outcome)[1]
    /\ "confidence" \notin DOMAIN AnswerEntities(lastCall.outcome)[2]
    /\ response.body.entities[1].confidence = 50
    /\ response.body.entities[2].confidence = 90
    /\ response.body.relationships[1].confidence = 70

\* The ids of the objects of a returned graph, an object without id giving <<>>
GraphIds(graph) ==
    {Get(graph.entities[k], "id", <<>>) : k \in 1..Len(graph.entities)}
        \cup {Get(graph.relationships[k], "id", <<>>) : k \in 1..Len(graph.relationships)}

\* C17: after a graph of n entities and m relationships is stamped, each of
\* them carries an id and the object registry holds a record under each id,
\* n + m records for the graph, whatever ids the LLM answer carried.
C17_StampingWritesOneRecordPerObject ==
    (ExtractReturned /\ response.status = 200) =>
        /\ <<>> \notin GraphIds(response.body)
        /\ \A id \in GraphIds(response.body) : Has(EXTRACTED_OBJECTS, id)
        /\ Cardinality({id \in GraphIds(response.body) : Has(EXTRACTED_OBJECTS, id)})
              = Len(response.body.entities) + Len(response.body.relationships)

\* C18: in a returned graph the ids of the entities and relationships are
\* pairwise distinct, also when the LLM answer carried ids.
C18_IdsDistinctWithinGraph ==
    (ExtractReturned /\ response.status = 200) =>
        LET es == response.body.entities
            rs == response.body.relationships
        IN /\ \A i, j \in 1..Len(es) : i # j => es[i].id # es[j].id
           /\ \A i, j \in 1..Len(rs) : i # j => rs[i].id # rs[j].id
           /\ \A i \in 1..Len(es), j \in 1..Len(rs) : es[i].id # rs[j].id

\* C20: the object registry is append-only and its records are immutable: a
\* record that exists under an id is still there, unchanged, after every step.
C20_ObjectRegistryIsAppendOnly ==
    [][\A i \in 1..Len(EXTRACTED_OBJECTS) :
          /\ Has(EXTRACTED_OBJECTS', EXTRACTED_OBJECTS[i].key)
          /\ Lookup(EXTRACTED_OBJECTS', EXTRACTED_OBJECTS[i].key) = EXTRACTED_OBJECTS[i].val
      ]_vars

-----------------------------------------------------------------------------
(* Properties of batch extraction, checked under SpecBatch *)

\* The batch handler has just returned
BatchReturned ==
    /\ lastCall.handler = "batch_extract_graph"
    /\ response.handler = "batch_extract_graph"

\* What the iteration for document i of the returned batch produces from its
\* own text, its own LLM answer and the identifiers it drew, in an empty store
AloneSlot(i) ==
    BatchSlot(lastCall.texts[i], lastCall.ontology, lastCall.outcomes[i],
              <<>>, lastCall.counters[i], i - 1)

IsPlaceholder(result) ==
    /\ result.entities = <<>>
    /\ result.relationships = <<>>
    /\ result.refinement_info # <<>>
    /\ \E k \in 1..Len(result.refinement_info) : result.refinement_info[k] # ""

\* Answers on which the pipeline of a document fails: no answer, a text that
\* is not JSON, an entity that is not an object
KnownFailure(outcome) ==
    \/ outcome.kind \in {"transport_error", "not_called"}
    \/ Unparseable(outcome)
    \/ /\ outcome.kind = "content"
       /\ outcome.content.kind = "text"
       /\ outcome.content.complete
       /\ outcome.content.json.t = "object"
       /\ "entities" \in DOMAIN outcome.content.json.fields
       /\ \E k \in 1..Len(outcome.content.json.fields.entities) :
             ~IsDict(outcome.content.json.fields.entities[k])

\* C1: a batch call returns 200 whichever of its documents fail; the slot of
\* a failed document is a placeholder with no entities, no relationships and
\* a non-empty diagnostic; every other slot is the result of its own document,
\* whatever happened to the others.
C1_BatchIsolatesFailures ==
    BatchReturned =>
        /\ response.status = 200
        /\ Len(response.body) = Len(lastCall.texts)
        /\ \A i \in 1..Len(lastCall.texts) :
              /\ KnownFailure(lastCall.outcomes[i]) => AloneSlot(i).failed
              /\ AloneSlot(i).failed => IsPlaceholder(response.body[i])
              /\ ~AloneSlot(i).failed =>
                    /\ response.body[i] = AloneSlot(i).result
                    /\ "error" \notin DOMAIN response.body[i].graph_metadata

\* A returned batch of two documents: one failed, the other has its entities
C1_Witness ==
    /\ BatchReturned
    /\ Len(lastCall.texts) = 2
    /\ \E i, j \in 1..2 :
          /\ i # j
          /\ Unparseable(lastCall.outcomes[i])
          /\ IsPlaceholder(response.body[i])
          /\ response.body[j].entities # <<>>
          /\ response.body[j].relationships # <<>>

\* C2: a batch call returns one result per text, and result i is the one of
\* texts[i]: it carries the index and the length of that text and is what
\* that text's answer produces; so for the empty batch and for batches with
\* failing documents.
C2_BatchOneResultPerTextInOrder ==
    /\ batch.pc = "running" =>
          /\ Len(batch.results) = batch.i
          /\ batch.i <= Len(batch.texts)
    /\ BatchReturned =>
          /\ Len(response.body) = Len(lastCall.texts)
          /\ \A i \in 1..Len(lastCall.texts) :
                LET metadata == response.body[i].graph_metadata
                IN /\ response.body[i] = AloneSlot(i).result
                   /\ IF "error" \in DOMAIN metadata
                      THEN metadata.text_index = i - 1
                      ELSE /\ metadata.batch_index = i - 1
                           /\ metadata.text_length = Len(lastCall.texts[i])

\* A returned batch of two texts of different lengths, one extracted and one
\* failed, each in the slot of its own text
C2_Witness ==
    /\ BatchReturned
    /\ Len(lastCall.texts) = 2
    /\ Len(lastCall.texts[1]) # Len(lastCall.texts[2])
    /\ lastCall.outcomes[1] # lastCall.outcomes[2]
    /\ response.body[1] # response.body[2]
    /\ \E i \in 1..2 : "batch_index" \in DOMAIN response.body[i].graph_metadata
    /\ \E i \in 1..2 : "error" \in DOMAIN response.body[i].graph_metadata

\* C16: after the repair pass every entity has a type: the first element of
\* its types list when it has no type, "Unknown" when it has neither; so for
\* every shape of the types field, and a batch document whose entities all
\* carry a value is therefore not lost for want of a type.
C16_RepairGivesEveryEntityAType ==
    BatchReturned =>
        \A i \in 1..Len(lastCall.texts) :
            IsGraphAnswer(lastCall.outcomes[i]) =>
                LET es == AnswerEntities(lastCall.outcomes[i])
                    repaired == ParseAndRepair(lastCall.outcomes[i]).graph.entities
                IN /\ \A k \in 1..Len(es) :
                         IsDict(es[k]) =>
                            /\ "type" \in DOMAIN repaired[k]
                            /\ ("type" \notin DOMAIN es[k] /\ "types" \in DOMAIN es[k]
                                  /\ es[k]["types"].items # <<>>)
                                  => repaired[k].type = es[k]["types"].items[1]
                            /\ ("type" \notin DOMAIN es[k] /\ "types" \notin DOMAIN es[k])
                                  => repaired[k].type = Unknown
                   /\ (/\ \A k \in 1..Len(es) : IsDict(es[k]) /\ "value" \in DOMAIN es[k]
                       /\ AnswerRelationships(lastCall.outcomes[i]) = <<>>)
                         => /\ "error" \notin DOMAIN response.body[i].graph_metadata
                            /\ Len(response.body[i].entities) = Len(es)
                            /\ \A k \in 1..Len(es) :
                                  "type" \in DOMAIN response.body[i].entities[k]

-----------------------------------------------------------------------------
(* Properties of both extraction paths, checked under SpecMixed *)

TransportError == [kind |-> "transport_error"]

\* C14: a transport failure of the LLM call makes /extract-graph answer with
\* the server error 500; the same failure on a document of a batch is caught
\* for that document: its slot is a placeholder and the batch answers 200.
C14_TransportFailureSingleVsBatch ==
    /\ (ExtractReturned /\ lastCall.outcome = TransportError) =>
          /\ response.status = 500
          /\ response.detail = <<"LLM graph extraction error: ", "APIConnectionError">>
    /\ BatchReturned =>
          \A i \in 1..Len(lastCall.texts) :
              lastCall.outcomes[i] = TransportError =>
                  /\ response.status = 200
                  /\ Len(response.body) = Len(lastCall.texts)
                  /\ IsPlaceholder(response.body[i])
                  /\ "error" \in DOMAIN response.body[i].graph_metadata
                  /\ ExtractGraph(lastCall.texts[i], lastCall.ontology, TransportError,
                                  EXTRACTED_OBJECTS, uuid_counter).raised
                  /\ ExtractGraph(lastCall.texts[i], lastCall.ontology, TransportError,
                                  EXTRACTED_OBJECTS, uuid_counter).status = 500

\* A batch returned with a document lost to a transport failure and another
\* one extracted
C14_Witness ==
    /\ BatchReturned
    /\ response.status = 200
    /\ Len(lastCall.texts) = 2
    /\ lastCall.outcomes[1] = TransportError
    /\ IsPlaceholder(response.body[1])
    /\ response.body[2].entities # <<>>

KeySet(d) == {d[i].key : i \in 1..Len(d)}

\* The ids of the objects of a list that the answer sent without an id
GeneratedIds(sent, returned) ==
    {returned[k].id : k \in {j \in 1..Len(returned) : "id" \notin DOMAIN sent[j]}}

\* The ids the service generated for the graph it built from an answer
NewIds(outcome, graph) ==
    IF IsGraphAnswer(outcome)
    THEN GeneratedIds(AnswerEntities(outcome), graph.entities)
            \cup GeneratedIds(AnswerRelationships(outcome), graph.relationships)
    ELSE {}

\* The ids were in no record before this step and each has a record after it
Fresh(ids) ==
    /\ ids \cap KeySet(EXTRACTED_OBJECTS) = {}
    /\ ids \subseteq KeySet(EXTRACTED_OBJECTS')
    /\ Len(EXTRACTED_OBJECTS') >= Len(EXTRACTED_OBJECTS) + Cardinality(ids)

\* C19: the ids an extraction generates, as a call of /extract-graph or as a
\* document of a batch, are ids of no earlier record, also when the same text
\* was extracted before; each gets a new record in the object registry, and
\* two slots of one batch share no id.
C19_GeneratedIdsAreNeverReused ==
    [][/\ (response'.handler = "extract_graph" /\ response'.status = 200)
          => Fresh(NewIds(lastCall'.outcome, response'.body))
       /\ (batch.pc = "running" /\ batch'.pc = "running" /\ batch'.i = batch.i + 1)
          => Fresh(NewIds(batch'.outcomes[batch'.i], batch'.results[batch'.i]))
       /\ (batch.pc = "running" /\ response'.status = 200)
          => \A i, j \in 1..Len(response'.body) :
                i # j => GraphIds(response'.body[i]) \cap GraphIds(response'.body[j]) = {}
      ]_vars

\* A batch returned for the same text twice, both extracted: six records
C19_Witness ==
    /\ BatchReturned
    /\ lastCall.texts = <<Text1, Text1>>
    /\ lastCall.outcomes[1] = lastCall.outcomes[2]
    /\ Cardinality(GraphIds(response.body[1])) = 3
    /\ Cardinality(GraphIds(response.body[2])) = 3
    /\ GraphIds(response.body[1]) \cap GraphIds(response.body[2]) = {}
    /\ Len(EXTRACTED_OBJECTS) >= 6

-----------------------------------------------------------------------------
(* Properties of the Object Registry, checked under SpecObjects *)

\* C21: for every entity of a result returned by a successful extraction,
\* looking up its id in the object registry right afterwards returns a record
\* of kind entity whose value and type are the entity's value and type.
C21_StampedEntityIsLookedUp ==
    (ExtractReturned /\ response.status = 200) =>
        \A i \in 1..Len(response.body.entities) :
            LET entity == response.body.entities[i]
                found == ObjectResponse(EXTRACTED_OBJECTS, entity.id)
            IN /\ found.status = 200
               /\ found.object_data.type = "entity"
               /\ found.object_data.value = entity.value
               /\ found.object_data.entity_type = entity.type

\* The ids a step stamps, for steps whose stamping ends in a returned graph
StampedByStep ==
    IF response'.handler = "extract_graph" /\ response'.status = 200
    THEN GraphIds(response'.body)
    ELSE {}

\* C22: GET /object/{id} returns the stored record exactly when some object
\* was stamped under that id, and otherwise fails with 404; either way it
\* leaves the object registry as it was.  (The ids that have a record are
\* exactly those stamped so far.)
C22_GetReturnsExactlyTheStamped ==
    [][/\ KeySet(EXTRACTED_OBJECTS') = KeySet(EXTRACTED_OBJECTS) \cup StampedByStep
       /\ response'.handler = "get_object_by_id" =>
             /\ UNCHANGED <<EXTRACTED_OBJECTS, ontoVars, uuid_counter>>
             /\ IF lastCall'.object_id \in KeySet(EXTRACTED_OBJECTS)
                THEN /\ response'.status = 200
                     /\ response'.object_id = lastCall'.object_id
                     /\ response'.object_data
                           = Lookup(EXTRACTED_OBJECTS, lastCall'.object_id)
                ELSE /\ response'.status = 404
                     /\ "object_data" \notin DOMAIN response'
      ]_vars

\* A lookup failed for an id never stamped while the registry holds the three
\* records of an extracted graph
C22_WitnessNotFound ==
    /\ response.handler = "get_object_by_id"
    /\ response.status = 404
    /\ lastCall.object_id = NeverStamped
    /\ Len(EXTRACTED_OBJECTS) = 3

\* A lookup returned the record of an entity under the id generated for it
C22_Witness ==
    /\ response.handler = "get_object_by_id"
    /\ response.status = 200
    /\ lastCall.object_id # LlmId
    /\ response.object_data.type = "entity"
    /\ response.object_data.value = Alice

\* A record passes the filters of a search: its kind is the type asked for,
\* its value contains the substring asked for, letter case aside
Matches(record, object_type, value) ==
    /\ object_type # NoType => record.type = object_type
    /\ value # <<>> =>
          /\ "value" \in DOMAIN record
          /\ Contains(Lower(value), Lower(record.value))

\* The records that pass the filters of the last search, in insertion order
Matching ==
    SelectSeq(EXTRACTED_OBJECTS,
              LAMBDA entry : Matches(entry.val, lastCall.object_type, lastCall.value))

Min(a, b) == IF a <= b THEN a ELSE b

\* C23: a search over a registry with k matching records returns exactly the
\* first min(limit, k) of them in insertion order, for every limit >= 0, and
\* never more than limit records.
C23_SearchReturnsFirstLimitMatches ==
    (response.handler = "search_objects" /\ lastCall.limit >= 0) =>
        LET n == Min(lastCall.limit, Len(Matching))
        IN /\ Len(response.objects) = n
           /\ response.total_found = n
           /\ \A j \in 1..n :
                 /\ response.objects[j].id = Matching[j].key
                 /\ response.objects[j].graph_data = Matching[j].val.graph_data
           /\ Len(response.objects) <= lastCall.limit

-----------------------------------------------------------------------------
(* Properties of the returned graphs, checked under SpecGraphs *)

\* The description a configuration gives for a type, or the template
DescriptionOr(descriptions, type, template) ==
    IF type \in DOMAIN descriptions THEN descriptions[type] ELSE template \o type

\* C24: the provenance description of a stamped object is the description
\* the stamping configuration gives for the object's type; when it gives
\* none, it is "Entity of type X" for an entity and "Relationship of type X"
\* for a relationship, X being the object's type.  So in the returned object
\* and in its registry record.
C24_DescriptionFromConfigOrTemplate ==
    (ExtractReturned /\ response.status = 200) =>
        /\ \A i \in 1..Len(response.body.entities) :
              LET entity == response.body.entities[i]
                  expected == DescriptionOr(ResolvedConfig.entity_descriptions, entity.type,
                                            <<"E", "n", "t", "i", "t", "y", " ", "o", "f",
                                              " ", "t", "y", "p", "e", " ">>)
              IN /\ entity.graph_data.description = expected
                 /\ Lookup(EXTRACTED_OBJECTS, entity.id).graph_data.description = expected
        /\ \A i \in 1..Len(response.body.relationships) :
              LET rel == response.body.relationships[i]
                  expected == DescriptionOr(ResolvedConfig.relationship_descriptions,
                                            rel.type,
                                            <<"R", "e", "l", "a", "t", "i", "o", "n", "s",
                                              "h", "i", "p", " ", "o", "f", " ", "t", "y",
                                              "p", "e", " ">>)
              IN /\ rel.graph_data.description = expected
                 /\ Lookup(EXTRACTED_OBJECTS, rel.id).graph_data.description = expected

\* A returned graph with a described entity type, an entity type and a
\* relationship type without description, and a described relationship type
C24_Witness ==
    /\ ExtractReturned
    /\ response.status = 200
    /\ Len(response.body.entities) = 2
    /\ Len(response.body.relationships) = 2
    /\ response.body.entities[1].graph_data.description = descHuman
    /\ response.body.entities[2].graph_data.description = EntityOfType \o Email
    /\ response.body.relationships[1].graph_data.description = RelationshipOfType \o OWNS
    /\ response.body.relationships[2].graph_data.description = descJob

\* C26: in every returned graph, every relationship's source and every
\* relationship's target is the value of some entity of the same graph,
\* whatever the LLM returned.
C26_RelationshipsReferToEntities ==
    (ExtractReturned /\ response.status = 200) =>
        LET values == {response.body.entities[k].value :
                          k \in 1..Len(response.body.entities)}
        IN \A i \in 1..Len(response.body.relationships) :
              /\ response.body.relationships[i].source \in values
              /\ response.body.relationships[i].target \in values

\* C27: no returned graph has a standalone entity whose type is one of the
\* resolved ontology's property-like types, whatever the LLM returned.
C27_NoStandalonePropertyEntity ==
    (ExtractReturned /\ response.status = 200) =>
        \A i \in 1..Len(response.body.entities) :
            response.body.entities[i].type \notin SetOf(ResolvedConfig.property_types)

-----------------------------------------------------------------------------
(* Properties of the batch loop's LLM calls, checked under SpecCalls *)

\* C25: the documents of a batch are processed concurrently, not one after
\* the other: the LLM call of a later document is in flight before the LLM
\* call of an earlier document has returned.  Stated on the step at which the
\* answer for a document arrives while the batch has documents after it: the
\* call of one of those is then in flight.
C25_BatchCallsOverlap ==
    [][(/\ batch.pc = "calling"
        /\ batch'.pc = "running"
        /\ batch.i + 1 < Len(batch.texts))
       => \E j \in (batch.i + 2)..Len(batch.texts) : j \in InFlight
      ]_vars

\* What the loop does instead: at most one LLM call is in flight, and it is
\* the call of the first document that has no result yet
C25_CallsAreSequential ==
    /\ Cardinality(InFlight) <= 1
    /\ batch.pc = "calling" => InFlight = {Len(batch.results) + 1}

-----------------------------------------------------------------------------
(* Properties of the client library against the service, checked under     *)
(* SpecClient                                                               *)

\* The client call that sent a registration, an extraction, a batch: the one
\* with these entity types, this text, these texts
RegistrationOf(request) ==
    CHOOSE c \in ClientRegistrations : c.entity_types = request.entity_types
ExtractionOf(text) == CHOOSE c \in ClientExtractions : c.text = text
BatchOf(texts) == CHOOSE c \in ClientBatches : c.texts = texts

\* C28: an ontology name passed to the client's update_ontology,
\* extract_graph or batch_extract_graph is the name under which the service
\* registers, respectively resolves, the ontology; two ontologies registered
\* through the client under two names are two configurations on the service,
\* each resolved by its name.
C28_ClientNamesAreServiceNames ==
    /\ \A i \in 1..Len(regLog) :
          LET sent == RegistrationOf(regLog[i])
          IN /\ regLog[i].ontology = sent.ontology_name
             /\ (\A j \in (i + 1)..Len(regLog) :
                    RegistrationOf(regLog[j]).ontology_name # sent.ontology_name)
                  => /\ Has(ONTOLOGIES, sent.ontology_name)
                     /\ get_ontology_by_name(sent.ontology_name).entity_types
                           = sent.entity_types
    /\ ExtractReturned => lastCall.ontology = ExtractionOf(lastCall.text).ontology_name
    /\ BatchReturned => lastCall.ontology = BatchOf(lastCall.texts).ontology_name

-----------------------------------------------------------------------------
(* Properties relating the batch loop to /extract-graph, checked under      *)
(* SpecBatch and SpecMixed                                                  *)

\* What /extract-graph makes of document i of the returned batch: the same
\* text, ontology and LLM answer, the same uuid4 draws
SingleResult(i) ==
    ExtractGraph(lastCall.texts[i], lastCall.ontology, lastCall.outcomes[i],
                 <<>>, lastCall.counters[i])

\* An entity or relationship without its id
WithoutId(x) == [k \in DOMAIN x \ {"id"} |-> x[k]]

\* C29: a batch slot is the single-document pipeline applied to its
\* document: whenever /extract-graph succeeds for a text, an ontology and an
\* LLM answer, the batch slot of that text is not a placeholder and carries
\* the same entities and relationships, the ids aside.
C29_BatchSlotIsSinglePipeline ==
    BatchReturned =>
        \A i \in 1..Len(lastCall.texts) :
            ~SingleResult(i).raised =>
                LET single == SingleResult(i).result
                    slot == response.body[i]
                IN /\ "error" \notin DOMAIN slot.graph_metadata
                   /\ Len(slot.entities) = Len(single.entities)
                   /\ Len(slot.relationships) = Len(single.relationships)
                   /\ \A k \in 1..Len(single.entities) :
                         WithoutId(slot.entities[k]) = WithoutId(single.entities[k])
                   /\ \A k \in 1..Len(single.relationships) :
                         WithoutId(slot.relationships[k])
                            = WithoutId(single.relationships[k])

\* C30: when the pipeline of a document fails, as an error answer of
\* /extract-graph or as a placeholder slot of a batch, the object registry
\* holds no record created for that document: it is as it was before the
\* document was processed.
C30_FailedExtractionLeavesNoRecord ==
    [][/\ (response'.handler = "extract_graph" /\ response'.status >= 400)
          => EXTRACTED_OBJECTS' = EXTRACTED_OBJECTS
       /\ (/\ batch.pc = "running"
           /\ batch'.pc = "running"
           /\ batch'.i = batch.i + 1
           /\ "error" \in DOMAIN batch'.results[batch'.i].graph_metadata)
          => EXTRACTED_OBJECTS' = EXTRACTED_OBJECTS
      ]_vars

-----------------------------------------------------------------------------
(* Further properties of the Ontology Registry, checked under SpecOnto *)

\* The types of the given kind that some registration filed under one of names
RegisteredUnder(names, kind) ==
    UNION { SetOf(StoredConfig(regLog[i])[kind]) :
              i \in {j \in 1..Len(regLog) : EffectiveName(regLog[j]) \in names} }

TypeKinds == {"entity_types", "relationship_types", "property_types"}

\* C31: configurations are isolated by name: resolving a name never returns
\* entity, relationship or property types that were registered only under
\* another name that is not "default"; so in every state registrations
\* lead to, also while "default" was never registered.
C31_ResolveIsIsolatedByName ==
    \A name \in ProbeNames \ {NoName} :
        \A kind \in TypeKinds :
            SetOf(get_ontology_by_name(name)[kind])
                \subseteq RegisteredUnder({name, "default"}, kind)

\* The name the registration of this step is filed under, if the step is one
RegisteredByStep ==
    IF Len(regLog') = Len(regLog) + 1
    THEN {EffectiveName(regLog'[Len(regLog')])}
    ELSE {}

\* C32: a registration changes only the entry of its own name: every other
\* name of the registry is still listed afterwards, with the configuration
\* it had, and the only name a step can add is the one it registers; so the
\* list of names never shrinks.
C32_RegistrationTouchesOnlyItsName ==
    [][/\ \A i \in 1..Len(ONTOLOGIES) :
             LET name == ONTOLOGIES[i].key
             IN /\ Has(ONTOLOGIES', name)
                /\ name \notin RegisteredByStep
                     => Lookup(ONTOLOGIES', name) = ONTOLOGIES[i].val
       /\ SetOf(get_available_ontologies) \subseteq SetOf(get_available_ontologies')
       /\ SetOf(get_available_ontologies') \ SetOf(get_available_ontologies)
             \subseteq RegisteredByStep
      ]_vars

\* Two names are listed; the first kept its configuration when the second,
\* with other types, was registered
C32_Witness ==
    /\ Len(regLog) = 2
    /\ EffectiveName(regLog[1]) # EffectiveName(regLog[2])
    /\ Len(ONTOLOGIES) = 2
    /\ response.handler = "get_ontologies"
    /\ response.available_ontologies
          = <<EffectiveName(regLog[1]), EffectiveName(regLog[2])>>
    /\ ONTOLOGIES[1].val = StoredConfig(regLog[1])
    /\ ONTOLOGIES[1].val.entity_types # <<>>
    /\ VALID_ONTOLOGY_TYPES # ONTOLOGIES[1].val.entity_types

-----------------------------------------------------------------------------
(* The handlers and the event loop, checked under SpecCalls *)

\* C33: the documents of one batch request all see the same ontology
\* configuration: from the first iteration of the loop to the return of the
\* handler no registration takes effect (the registry, the legacy globals and
\* the log of registrations stay as they are), and no write to a registry is
\* lost: a registration is in the registry when its handler has returned, and
\* every provenance record written stays in the object registry.
C33_BatchSeesOneConfiguration ==
    [][/\ batch.pc # "idle"
            => /\ ontoVars' = ontoVars
               /\ regLog' = regLog
       /\ Len(regLog') = Len(regLog) + 1
            => Lookup(ONTOLOGIES', EffectiveName(regLog'[Len(regLog')]))
                 = StoredConfig(regLog'[Len(regLog')])
       /\ \A i \in 1..Len(EXTRACTED_OBJECTS) :
             Has(EXTRACTED_OBJECTS', EXTRACTED_OBJECTS[i].key)
      ]_vars

\* A batch of two documents has stamped its first document and waits for the
\* LLM's answer to the second, under a registered ontology
C33_Witness ==
    /\ batch.pc = "calling"
    /\ batch.i = 1
    /\ Len(batch.texts) = 2
    /\ Has(ONTOLOGIES, batch.ontology)
    /\ Len(regLog) >= 1
    /\ Len(batch.results[1].entities) > 0

-----------------------------------------------------------------------------
(* Provenance and repair, checked under SpecGraphs and SpecRepair *)

\* The name of the configuration the last extraction was stamped with: the
\* requested one if it is registered, else "default"
StampedWith ==
    IF lastCall.ontology # NoName /\ Has(ONTOLOGIES, lastCall.ontology)
    THEN lastCall.ontology
    ELSE "default"

\* C34: the ontology_source of every entity and relationship of an extracted
\* graph is the name of the configuration it was stamped with: the requested
\* name when that name is registered, "default" when the fallback was taken.
C34_OntologySourceIsTheConfigName ==
    (ExtractReturned /\ response.status = 200) =>
        /\ \A i \in 1..Len(response.body.entities) :
              response.body.entities[i].graph_data.ontology_source = StampedWith
        /\ \A i \in 1..Len(response.body.relationships) :
              response.body.relationships[i].graph_data.ontology_source = StampedWith

\* C35: the repair pass leaves a type that is present as it is: an entity
\* that the LLM sent with a type field has that type after the pass, with or
\* without a types list next to it.
C35_RepairKeepsPresentType ==
    (ExtractReturned /\ IsGraphAnswer(lastCall.outcome)) =>
        LET es == AnswerEntities(lastCall.outcome)
            repaired == ParseAndRepair(lastCall.outcome).graph
        IN \A i \in 1..Len(es) :
              (IsDict(es[i]) /\ "type" \in DOMAIN es[i]) =>
                  repaired.entities[i].type = es[i].type

-----------------------------------------------------------------------------
(* The filters of /search-objects, checked under SpecObjects *)

\* The ids a search returned, and the ids of the records that pass its filters
ReturnedIds == {response.objects[j].id : j \in 1..Len(response.objects)}
MatchingIds == {Matching[j].key : j \in 1..Len(Matching)}

\* C36: a search returns only records whose kind is the type asked for (if
\* one is) and whose stored value contains the substring asked for (if one
\* is), letter case aside, and, unless the limit cuts the answer short, all
\* of them; relationship records store no value, so none is returned when a
\* substring is asked for.
C36_SearchReturnsTheMatchingRecords ==
    response.handler = "search_objects" =>
        /\ ReturnedIds \subseteq MatchingIds
        /\ Len(response.objects) < lastCall.limit => ReturnedIds = MatchingIds
        /\ \A j \in 1..Len(response.objects) :
              /\ lastCall.object_type # NoType
                    => response.objects[j].type = lastCall.object_type
              /\ lastCall.value # <<>>
                    => /\ response.objects[j].type # "relationship"
                       /\ Contains(Lower(lastCall.value), Lower(response.objects[j].value))
        /\ \A i \in 1..Len(EXTRACTED_OBJECTS) :
              EXTRACTED_OBJECTS[i].val.type = "relationship"
                  => "value" \notin DOMAIN EXTRACTED_OBJECTS[i].val

\* A search for "AL" over a registry that holds Alice, another entity and a
\* relationship returned Alice alone
C36_Witness ==
    /\ response.handler = "search_objects"
    /\ lastCall.value = <<"A", "L">>
    /\ lastCall.object_type = NoType
    /\ lastCall.limit = MaxLimit
    /\ \E i \in 1..Len(EXTRACTED_OBJECTS) : EXTRACTED_OBJECTS[i].val.type = "relationship"
    /\ Len(EXTRACTED_OBJECTS) >= 3
    /\ Len(response.objects) = 1
    /\ response.objects[1].value = Alice

-----------------------------------------------------------------------------
(* The request loop of the client libraries, checked under SpecRetry *)

\* This step is an attempt of the running _make_request
AttemptStep == http.pc = "attempting" /\ http' # http

\* What the transport did on the attempt of this step
Attempted == http'.outcomes[Len(http'.outcomes)]

\* The number of requests sent never exceeds retries + 1, and the loop is in
\* its iteration number sent
AttemptsAreBounded ==
    http.pc # "idle" =>
        /\ http.sent <= http.retries + 1
        /\ http.attempt <= http.retries
        /\ http.pc = "attempting" => http.sent = http.attempt
        /\ Len(http.slept) = http.attempt
        /\ \A k \in 1..Len(http.slept) : http.slept[k] = 2 ^ (k - 1)

\* What an attempt owes to the loop
LoopContract ==
    /\ http'.sent = http.sent + 1
    /\ http'.sent <= http.retries + 1
    /\ Attempted.kind = "exception" =>
          IF http'.sent < http.retries + 1
          THEN /\ http'.pc = "attempting"
               /\ http'.attempt = http.attempt + 1
               /\ http'.slept = Append(http.slept, 2 ^ http.attempt)
          ELSE /\ http'.pc = "done"
               /\ http'.result = Raised(ServiceError(http.lib),
                                         "Request failed after retries")
    /\ Attempted.kind = "response" => http'.pc = "done"

\* What an attempt that got a response owes to its caller
StatusContract ==
    /\ Attempted.status >= 400 =>
          /\ http'.pc = "done"
          /\ http'.result = Raised(ServiceError(http.lib), "HTTP")
    /\ Attempted.status = 204 =>
          /\ http'.pc = "done"
          /\ http'.result = Returned("{}")
    /\ (Attempted.status < 400 /\ Attempted.status # 204 /\ Attempted.body # "text") =>
          /\ http'.pc = "done"
          /\ http'.result = Returned(IF Attempted.body = "empty" THEN "{}" ELSE "body")

\* response.json() is called on a body that is no JSON on this attempt
JsonFails ==
    /\ Attempted.kind = "response"
    /\ Attempted.body = "text"
    /\ Attempted.status # 204
    /\ Attempted.status >= 400 => http.lib = "kg"

\* C37: a client request makes at most retries + 1 attempts: an attempt that
\* fails with a transport exception is followed, after a sleep of 2^attempt
\* seconds, by another one until retries + 1 were made, and then the client
\* error is raised; an attempt that gets a response ends the loop.
C37_LoopEndsOnResponseOrLastFailure == [][AttemptStep => LoopContract]_vars

\* The same, for the attempts on which response.json() does not fail
C37_HoldsUnlessJsonFails == [][(AttemptStep /\ ~JsonFails) => LoopContract]_vars

\* C38: a response with a status of 400 or more is not retried: the service
\* error is raised on the attempt that received it; a 204 response returns
\* the empty dictionary, another status below 400 the decoded body (the
\* empty dictionary for an empty body).
C38_ErrorStatusIsNotRetried ==
    [][(AttemptStep /\ Attempted.kind = "response") => StatusContract]_vars

\* The same, for the attempts on which response.json() does not fail
C38_HoldsUnlessJsonFails ==
    [][(AttemptStep /\ Attempted.kind = "response" /\ ~JsonFails) => StatusContract]_vars

-----------------------------------------------------------------------------
(* The deduplication of the spaCy extractor, checked under SpecDedup *)

\* Two spans share a character
SpansOverlap(a, b) ==
    \E pos \in 0..MaxEnd : /\ a.start <= pos /\ pos < a.end
                            /\ b.start <= pos /\ pos < b.end

\* C39: the list _deduplicate_entities returns holds no two entities whose
\* spans overlap, whatever list of entities with non-empty spans it is given.
C39_OutputHasNoOverlap ==
    spacy.called =>
        \A i, j \in 1..Len(spacy.deduplicated) :
            i # j => ~SpansOverlap(spacy.deduplicated[i], spacy.deduplicated[j])

\* Three entities, the second inside the first and less confident, the third
\* apart from both: the first and the third are returned
C39_Witness ==
    /\ spacy.called
    /\ Len(spacy.entities) = 3
    /\ SpansOverlap(spacy.entities[1], spacy.entities[2])
    /\ spacy.entities[1].confidence > spacy.entities[2].confidence
    /\ ~SpansOverlap(spacy.entities[1], spacy.entities[3])
    /\ spacy.deduplicated = <<spacy.entities[1], spacy.entities[3]>>

\* C40: an entity is dropped only in favour of one that is returned: every
\* entity of the input that is not in the output overlaps an entity of the
\* output whose confidence is at least its own.
C40_DroppedOnlyForRetained ==
    spacy.called =>
        \A i \in 1..Len(spacy.entities) :
            spacy.entities[i] \notin SetOf(spacy.deduplicated) =>
                \E j \in 1..Len(spacy.deduplicated) :
                    /\ SpansOverlap(spacy.entities[i], spacy.deduplicated[j])
                    /\ spacy.deduplicated[j].confidence >= spacy.entities[i].confidence

=============================================================================
